---- MODULE Spec2Model ----
(***************************************************************************)
(* A model of the DOM renderer's row factory (DomRendererRowFactory) of    *)
(* xterm.js: createRow turns one buffer line into background spans and     *)
(* character spans.  The loop of createRow is modelled one iteration per   *)
(* step; the helpers it calls are operators.                               *)
(*                                                                         *)
(* Representation.  A 32-bit attribute word (cell.fg, cell.bg) is the      *)
(* record of its bit fields, so equality of records is equality of words.  *)
(* A string of characters is the sequence of its code points.  An IColor   *)
(* is [rgb, a]: its 24-bit colour (rgba >> 8) and its alpha byte.          *)
(***************************************************************************)
EXTENDS Integers, Sequences, FiniteSets, TLC

\* ------------------------------------------------------------------ bounds

\* Number of columns of the buffer line (lineData.length).
Cols == 4

\* Pixel width of one cell (createRow's cellWidth argument).
CellWidthPx == 8

\* ------------------------------------------------------- program constants

\* WHITESPACE_CELL_CHAR is ' '.
WHITESPACE_CELL_CHAR == <<32>>

\* '\xa0', the non-breaking space.
NBSP == <<160>>

\* INVERTED_DEFAULT_COLOR: the palette slot after the 256 colours and the
\* default foreground/background pair.
INVERTED_DEFAULT_COLOR == 257

\* The code JoinedCellData.getCode() reports for every joined cell.
JOINED_CODE == 2097151

\* An absent value (undefined) where the present values are numbers.
Undef == 0 - 1

\* An opaque colour.
Opaque(rgb) == [rgb |-> rgb, a |-> 255]

\* An absent IColor.
NoColor == [rgb |-> Undef, a |-> 0]

\* ------------------------------------------------------ strings and numbers

Max(a, b) == IF a >= b THEN a ELSE b
Min(a, b) == IF a <= b THEN a ELSE b

HexDigit == <<"0", "1", "2", "3", "4", "5", "6", "7",
              "8", "9", "a", "b", "c", "d", "e", "f">>

\* Number.prototype.toString(16) of a non-negative integer.
RECURSIVE ToString16(_)
ToString16(n) ==
    IF n < 16 THEN HexDigit[n + 1]
    ELSE ToString16(n \div 16) \o HexDigit[(n % 16) + 1]

\* padStart(text, padChar, length): prefix padChar while the text is shorter.
RECURSIVE padStart(_, _, _)
padStart(text, padChar, length) ==
    IF Len(text) < length THEN padStart(padChar \o text, padChar, length)
    ELSE text

\* `#${padStart(n.toString(16), '0', 6)}`
HexColor(n) == "#" \o padStart(ToString16(n), "0", 6)

\* IColor.css of an opaque colour.
Css(c) == HexColor(c.rgb)

\* rgba.toColor(r, g, b) applied to the three bytes of a 24-bit value: the
\* bytes are split and put together again.
ToColor(v) ==
    LET r == (v \div 65536) % 256
        g == (v \div 256) % 256
        b == v % 256
    IN  Opaque(r * 65536 + g * 256 + b)

\* color.multiplyOpacity(c, 0.5): the alpha byte is Math.round(a * 0.5).
MultiplyOpacityHalf(c) == [rgb |-> c.rgb, a |-> (c.a + 1) \div 2]

\* ------------------------------------------------------------------- cells

\* The foreground word: colour mode, colour, and the flags it carries.
FgWord(cm, color, flags) == [cm |-> cm, color |-> color, flags |-> flags]

\* The background word: colour mode, colour, and the flags it carries.
BgWord(cm, color, flags) == [cm |-> cm, color |-> color, flags |-> flags]

FgFlags == {"inverse", "bold", "underline", "invisible", "strikethrough"}
BgFlags == {"italic", "dim", "overline", "hasExtended"}

\* The extended attributes of a cell: the underline style and the underline
\* colour (colour mode "NONE": no underline colour is set).  The record
\* stands for the fingerprint extended.ext.
ExtendedAttrs(style, ucm, ucolor) == [underlineStyle |-> style, ucm |-> ucm, ucolor |-> ucolor]
DefaultExt == ExtendedAttrs(0, "NONE", 0)

\* A cell of the line: its characters (empty for a blank cell), its width,
\* its two attribute words and the fingerprint of its extended attributes.
Cell(chars, width, fg, bg, ext) ==
    [chars |-> chars, width |-> width, fg |-> fg, bg |-> bg, ext |-> ext,
     joined |-> FALSE]

getWidth(cell) == cell.width
getChars(cell) == cell.chars
\* The code point of a single character, 0 for a blank cell, and the
\* combined marker for a joined cell.
getCode(cell) ==
    IF cell.joined THEN JOINED_CODE
    ELSE IF cell.chars = <<>> THEN 0
    ELSE cell.chars[Len(cell.chars)]

isInverse(cell) == "inverse" \in cell.fg.flags
isBold(cell) == "bold" \in cell.fg.flags
hasExtendedAttrs(cell) == "hasExtended" \in cell.bg.flags
\* Underlined by an extended underline style, or by the flag of the word.
isUnderline(cell) ==
    \/ (hasExtendedAttrs(cell) /\ cell.ext.underlineStyle # 0)
    \/ "underline" \in cell.fg.flags
isInvisible(cell) == "invisible" \in cell.fg.flags
isStrikethrough(cell) == "strikethrough" \in cell.fg.flags
isItalic(cell) == "italic" \in cell.bg.flags
isDim(cell) == "dim" \in cell.bg.flags
isOverline(cell) == "overline" \in cell.bg.flags

getFgColorMode(cell) == cell.fg.cm
getBgColorMode(cell) == cell.bg.cm

\* The colour of a word: the palette index or the RGB value, -1 for default.
WordColor(w) ==
    CASE w.cm \in {"P16", "P256"} -> w.color % 256
      [] w.cm = "RGB" -> w.color % 16777216
      [] OTHER -> Undef
getFgColor(cell) == WordColor(cell.fg)
getBgColor(cell) == WordColor(cell.bg)

\* The underline colour: the extended one when set, else the foreground's.
HasUnderlineColor(cell) == hasExtendedAttrs(cell) /\ cell.ext.ucm # "NONE"
getUnderlineColor(cell) ==
    IF HasUnderlineColor(cell)
    THEN WordColor([cm |-> cell.ext.ucm, color |-> cell.ext.ucolor])
    ELSE getFgColor(cell)
isUnderlineColorDefault(cell) ==
    IF HasUnderlineColor(cell) THEN cell.ext.ucm = "DEFAULT" ELSE cell.fg.cm = "DEFAULT"
isUnderlineColorRGB(cell) ==
    IF HasUnderlineColor(cell) THEN cell.ext.ucm = "RGB" ELSE cell.fg.cm = "RGB"

\* new JoinedCellData(firstCell, chars, width): the attribute words of the
\* first cell, the joined text and the width of the range.
JoinedCellData(firstCell, chars, width) ==
    [chars |-> chars, width |-> width, fg |-> firstCell.fg,
     bg |-> firstCell.bg, ext |-> firstCell.ext, joined |-> TRUE]

\* ------------------------------------------------------------- line data

\* lineData.loadCell(x, workCell): the cell of column x.
loadCell(line, col) == line[col + 1]

\* Whether a cell holds a character (Content.HAS_CONTENT_MASK).
HasContent(cell) == cell.chars # <<>>

\* lineData.getTrimmedLength(): the column after the last cell that holds a
\* character, counted with that cell's width.
RECURSIVE TrimmedFrom(_, _)
TrimmedFrom(line, i) ==
    IF i < 0 THEN 0
    ELSE IF HasContent(line[i + 1]) THEN i + line[i + 1].width
    ELSE TrimmedFrom(line, i - 1)
getTrimmedLength(line) == TrimmedFrom(line, Len(line) - 1)

\* lineData.getNoBgTrimmedLength(): the trimmed length ignoring trailing
\* default-background cells: a cell with a background colour (a colour mode
\* other than default) is not ignored, so the length reaches behind it, the
\* right half of a wide character included.
RECURSIVE NoBgTrimmedFrom(_, _)
NoBgTrimmedFrom(line, i) ==
    IF i < 0 THEN 0
    ELSE IF HasContent(line[i + 1]) THEN i + line[i + 1].width
    ELSE IF line[i + 1].bg.cm # "DEFAULT" THEN i + 1
    ELSE NoBgTrimmedFrom(line, i - 1)
getNoBgTrimmedLength(line) == NoBgTrimmedFrom(line, Len(line) - 1)

\* lineData.translateToString(true, startCol, endCol): the characters of the
\* columns, a blank cell giving a space; the column advances by the cell's
\* width, or by 1 for a cell of width 0; trimRight cuts at the trimmed length.
RECURSIVE TranslateFrom(_, _, _)
TranslateFrom(line, startCol, endCol) ==
    IF startCol >= endCol THEN <<>>
    ELSE LET cell == line[startCol + 1]
             s == IF HasContent(cell) THEN cell.chars ELSE WHITESPACE_CELL_CHAR
             w == IF cell.width = 0 THEN 1 ELSE cell.width
         IN  s \o TranslateFrom(line, startCol + w, endCol)
translateToString(line, trimRight, startCol, endCol) ==
    TranslateFrom(line, startCol,
                  IF trimRight THEN Min(endCol, getTrimmedLength(line)) ELSE endCol)

\* ------------------------------------------------------------ width cache

\* The measured pixel width of one glyph.  Most narrow glyphs fill the cell
\* exactly; a glyph taken from a fallback font ('w' here) is one pixel wider;
\* a wide glyph fills two cells.  Bold text of the fallback glyph is wider still.
GlyphWidth(code, bold, italic) ==
    CASE code = 119 -> CellWidthPx + 1 + (IF bold THEN 1 ELSE 0)
      [] code >= 4352 /\ code < 9472 -> 2 * CellWidthPx
      [] code >= 11904 /\ code < 57344 -> 2 * CellWidthPx
      [] OTHER -> CellWidthPx

\* widthCache.get(chars, bold, italic): the measured width of the string.
RECURSIVE WidthCacheGet(_, _, _)
WidthCacheGet(chars, bold, italic) ==
    IF chars = <<>> THEN 0
    ELSE GlyphWidth(Head(chars), bold, italic)
         + WidthCacheGet(Tail(chars), bold, italic)

\* -------------------------------------------------------------- the theme

\* colors.ansi: the first sixteen palette entries of the default theme.
AnsiRgb == <<3028022, 13369344, 5151238, 12886016, 3433892, 7689083, 432282, 13882319,
             5592391, 15673641, 9097780, 16574287, 7512015, 11370408, 3465954, 15658732>>
Ansi(i) == Opaque(AnsiRgb[i + 1])

\* colors.foreground and colors.background.
ThemeForeground == Opaque(16777215)
ThemeBackground == Opaque(0)

\* colors.selectionBackgroundOpaque and colors.selectionInactiveBackgroundOpaque.
SelectionBackgroundOpaque == Opaque(3368703)
SelectionInactiveBackgroundOpaque == Opaque(5592405)

\* The selection foreground a theme may configure.
SelectionForegroundColor == Opaque(16776960)

\* ------------------------------------------------------------ decorations

\* The decorations the decoration service may hold: each has an optional
\* background colour, an optional foreground colour and a layer.
Decoration(id) ==
    CASE id = "dBg"    -> [bg |-> Opaque(1122867), fg |-> NoColor, layer |-> "bottom"]
      [] id = "dBg2"   -> [bg |-> Opaque(2241348), fg |-> NoColor, layer |-> "bottom"]
      [] id = "dFg"    -> [bg |-> NoColor, fg |-> Opaque(4469538), layer |-> "bottom"]
      [] id = "dTopBg" -> [bg |-> Opaque(7833753), fg |-> NoColor, layer |-> "top"]
      [] id = "dTopFg" -> [bg |-> NoColor, fg |-> Opaque(10066329), layer |-> "top"]
      [] id = "dTop"   -> [bg |-> NoColor, fg |-> NoColor, layer |-> "top"]
      [] OTHER         -> [bg |-> NoColor, fg |-> NoColor, layer |-> "bottom"]

\* _isSameDecorations(decos1, decos2): same length and pairwise the same
\* decoration objects.
RECURSIVE SameFrom(_, _, _)
SameFrom(decos1, decos2, i) ==
    IF i > Len(decos1) THEN TRUE
    ELSE IF decos1[i] # decos2[i] THEN FALSE
    ELSE SameFrom(decos1, decos2, i + 1)
isSameDecorations(decos1, decos2) ==
    IF Len(decos1) = 0 /\ Len(decos2) = 0 THEN TRUE
    ELSE IF Len(decos1) # Len(decos2) THEN FALSE
    ELSE SameFrom(decos1, decos2, 1)

\* -------------------------------------------------------------- selection

\* A selection as the factory stores it: two [column, row] ends (set TRUE),
\* or none, and the column-select flag.
NoSelection == [set |-> FALSE, start |-> <<0, 0>>, end |-> <<0, 0>>, columnSelectMode |-> FALSE]
Selection(start, end, mode) == [set |-> TRUE, start |-> start, end |-> end, columnSelectMode |-> mode]

\* (mutant) the rows of the two ends are not in the selection.
isRowInSelectionBetween(s, y) ==
    IF ~s.set THEN FALSE
    ELSE y > s.start[2] /\ y < s.end[2]

\* _isRowInSelection(y)
isRowInSelection(s, y) ==
    IF ~s.set THEN FALSE
    ELSE y >= s.start[2] /\ y <= s.end[2]

\* (mutant) column-select mode takes the start column for the left edge.
isCellInSelectionUnnormalized(s, cx, y) ==
    IF ~s.set THEN FALSE
    ELSE IF s.columnSelectMode THEN
        cx >= s.start[1] /\ y >= s.start[2] /\ cx < s.end[1] /\ y <= s.end[2]
    ELSE \/ (y > s.start[2] /\ y < s.end[2])
         \/ (s.start[2] = s.end[2] /\ y = s.start[2] /\ cx >= s.start[1] /\ cx < s.end[1])
         \/ (s.start[2] < s.end[2] /\ y = s.end[2] /\ cx < s.end[1])
         \/ (s.start[2] < s.end[2] /\ y = s.start[2] /\ cx >= s.start[1])

\* (mutant) in normal mode the end column belongs to the selection.
isCellInSelectionEndInclusive(s, cx, y) ==
    IF ~s.set THEN FALSE
    ELSE IF s.columnSelectMode THEN
        IF s.start[1] <= s.end[1]
        THEN cx >= s.start[1] /\ y >= s.start[2] /\ cx < s.end[1] /\ y <= s.end[2]
        ELSE cx < s.start[1] /\ y >= s.start[2] /\ cx >= s.end[1] /\ y <= s.end[2]
    ELSE \/ (y > s.start[2] /\ y < s.end[2])
         \/ (s.start[2] = s.end[2] /\ y = s.start[2] /\ cx >= s.start[1] /\ cx <= s.end[1])
         \/ (s.start[2] < s.end[2] /\ y = s.end[2] /\ cx <= s.end[1])
         \/ (s.start[2] < s.end[2] /\ y = s.start[2] /\ cx >= s.start[1])

\* _isCellInSelection(x, y)
isCellInSelection(s, cx, y) ==
    IF ~s.set THEN FALSE
    ELSE IF s.columnSelectMode THEN
        IF s.start[1] <= s.end[1]
        THEN cx >= s.start[1] /\ y >= s.start[2] /\ cx < s.end[1] /\ y <= s.end[2]
        ELSE cx < s.start[1] /\ y >= s.start[2] /\ cx >= s.end[1] /\ y <= s.end[2]
    ELSE \/ (y > s.start[2] /\ y < s.end[2])
         \/ (s.start[2] = s.end[2] /\ y = s.start[2] /\ cx >= s.start[1] /\ cx < s.end[1])
         \/ (s.start[2] < s.end[2] /\ y = s.end[2] /\ cx < s.end[1])
         \/ (s.start[2] < s.end[2] /\ y = s.start[2] /\ cx >= s.start[1])

\* ------------------------------------------------------- minimum contrast

\* excludeFromContrastRatioDemands and the two ranges it tests.
isPowerlineGlyph(codepoint) == 57508 <= codepoint /\ codepoint <= 57558
isBoxOrBlockGlyph(codepoint) == 9472 <= codepoint /\ codepoint <= 9631
excludeFromContrastRatioDemands(codepoint) ==
    isPowerlineGlyph(codepoint) \/ isBoxOrBlockGlyph(codepoint)

\* The luminance of a colour on a scale of 0..255 (green weighs most), and
\* ten times the contrast ratio of two luminances.
Luminance(rgb) ==
    (2 * ((rgb \div 65536) % 256) + 7 * ((rgb \div 256) % 256) + (rgb % 256)) \div 10
Contrast10(l1, l2) == ((Max(l1, l2) + 13) * 10) \div (Min(l1, l2) + 13)

\* color.ensureContrastRatio(bg, fg, ratio): nothing when the pair already has
\* the ratio; else the foreground moved away from the background, here to the
\* end of the scale (black or white) that contrasts more.  The alpha of the
\* background plays no part.
ensureContrastRatio(bg, fg, ratio10) ==
    IF Contrast10(Luminance(bg.rgb), Luminance(fg.rgb)) >= ratio10 THEN NoColor
    ELSE IF Contrast10(Luminance(bg.rgb), 0) > Contrast10(Luminance(bg.rgb), 255)
         THEN Opaque(0)
         ELSE Opaque(16777215)

\* A contrast cache is a set of entries [bg, fg, value]; value NoColor is the
\* stored null.  getColor gives the entries of the pair (none: undefined).
CacheGet(cache, bg, fg) == {e \in cache : e.bg = bg /\ e.fg = fg}
CacheSet(cache, bg, fg, value) ==
    {e \in cache : ~(e.bg = bg /\ e.fg = fg)} \cup {[bg |-> bg, fg |-> fg, value |-> value]}

\* (mutant) when no adjustment is needed the cache stores the foreground
\* itself, not the null.
applyMinimumContrastStoresForeground(caches, minimumContrastRatio, bg, fg, cell, bgOverride, fgOverride) ==
    IF minimumContrastRatio = 1 \/ excludeFromContrastRatioDemands(getCode(cell))
    THEN [applied |-> FALSE, color |-> NoColor, caches |-> caches,
          requested |-> FALSE, computed |-> FALSE, dim |-> isDim(cell), bg |-> bg, fg |-> fg]
    ELSE
      LET which == IF isDim(cell) THEN "half" ELSE "normal"
          cache == caches[which]
          useCache == bgOverride = NoColor /\ fgOverride = NoColor
          hit == IF useCache THEN CacheGet(cache, bg, fg) ELSE {}
          ratio10 == (minimumContrastRatio * 10) \div (IF isDim(cell) THEN 2 ELSE 1)
          effBg == IF bgOverride # NoColor THEN bgOverride ELSE bg
          effFg == IF fgOverride # NoColor THEN fgOverride ELSE fg
          adjusted == IF hit # {} THEN (CHOOSE e \in hit : TRUE).value
                      ELSE ensureContrastRatio(effBg, effFg, ratio10)
          cache2 == IF hit # {} THEN cache
                    ELSE CacheSet(cache, effBg, effFg,
                                  IF adjusted = NoColor THEN effFg ELSE adjusted)
      IN  [applied |-> adjusted # NoColor, color |-> adjusted,
           caches |-> [caches EXCEPT ![which] = cache2],
           requested |-> TRUE, computed |-> hit = {}, dim |-> isDim(cell), bg |-> bg, fg |-> fg]

\* _applyMinimumContrast(element, bg, fg, cell, bgOverride, fgOverride) with
\* the caches [normal, half] and the option: whether element.style.color was
\* set, the colour set, and the caches afterwards.
applyMinimumContrast(caches, minimumContrastRatio, bg, fg, cell, bgOverride, fgOverride) ==
    IF minimumContrastRatio = 1 \/ excludeFromContrastRatioDemands(getCode(cell))
    THEN [applied |-> FALSE, color |-> NoColor, caches |-> caches,
          requested |-> FALSE, computed |-> FALSE, dim |-> isDim(cell), bg |-> bg, fg |-> fg]
    ELSE
      LET which == IF isDim(cell) THEN "half" ELSE "normal"
          cache == caches[which]
          useCache == bgOverride = NoColor /\ fgOverride = NoColor
          hit == IF useCache THEN CacheGet(cache, bg, fg) ELSE {}
          ratio10 == (minimumContrastRatio * 10) \div (IF isDim(cell) THEN 2 ELSE 1)
          effBg == IF bgOverride # NoColor THEN bgOverride ELSE bg
          effFg == IF fgOverride # NoColor THEN fgOverride ELSE fg
          adjusted == IF hit # {} THEN (CHOOSE e \in hit : TRUE).value
                      ELSE ensureContrastRatio(effBg, effFg, ratio10)
          cache2 == IF hit # {} THEN cache ELSE CacheSet(cache, effBg, effFg, adjusted)
      IN  [applied |-> adjusted # NoColor, color |-> adjusted,
           caches |-> [caches EXCEPT ![which] = cache2],
           requested |-> TRUE, computed |-> hit = {}, dim |-> isDim(cell), bg |-> bg, fg |-> fg]

\* ------------------------------------------------------------------ state

VARIABLES
    lineData,            \* the buffer line: a sequence of Cols cells
    args,                \* createRow's arguments: row, isCursorRow, cursorX, linkStart, linkEnd
    joinedSrc,           \* characterJoinerService.getJoinedCharacters(row)
    decoAt,              \* the decorations of each column of the row, in registration order
    opts,                \* options, theme choice and the state of the other services
    pendingSel,          \* the selection change the renderer is about to deliver
    sel,                 \* _selectionStart, _selectionEnd, _columnSelectMode
    pc,                  \* "idle", "loop" (inside createRow's loop) or "done"
    x,                   \* the loop's column
    loc,                 \* the other locals of createRow
    charElements,        \* the character spans pushed so far
    backgroundElements,  \* the background spans pushed so far
    caches,              \* colors.contrastCache and colors.halfContrastCache
    result,              \* createRow's return value
    hist,                \* history: one record per loop iteration taken
    earlier,             \* history: the return values of the earlier calls of createRow
    guard,               \* history: the calls of throwIfFalsy and what came of each
    unicode,             \* UnicodeProvider: the static versions, _version, wcwidth, the last call
    composition,         \* CompositionHelper, its textarea, the timers it set, the handler's calls
    viewport,            \* Viewport, its element, the frame and the events pending, scrollLines' calls
    image                \* ImageRenderer, the terminal core it hooks, the bitmap promises pending

vars == <<lineData, args, joinedSrc, decoAt, opts, pendingSel, sel, pc, x, loc,
          charElements, backgroundElements, caches, result, hist, earlier,
          guard, unicode, composition, viewport, image>>

\* The variables of the row factory, and those of the other classes.
rowVars == <<lineData, args, joinedSrc, decoAt, opts, pendingSel, sel, pc, x, loc,
             charElements, backgroundElements, caches, result, hist, earlier>>
others == <<guard, unicode, composition, viewport, image>>

inputs == <<lineData, args, joinedSrc, decoAt, opts>>

\* ------------------------------------------------------ paint resolution

\* (mutant) no decoration is skipped.
DecorationOverrideNoSkip(p, d) ==
    LET p1 == IF d.bg # NoColor
              THEN [p EXCEPT !.bgColorMode = "RGB", !.bg = d.bg.rgb, !.bgOverride = d.bg]
              ELSE p
        p2 == IF d.fg # NoColor
              THEN [p1 EXCEPT !.fgColorMode = "RGB", !.fg = d.fg.rgb, !.fgOverride = d.fg]
              ELSE p1
    IN  [p2 EXCEPT !.isTop = (d.layer = "top")]

\* (mutant) a colour that is set is not overridden again.
DecorationOverrideFirst(p, d) ==
    IF d.layer # "top" /\ p.isTop THEN p
    ELSE LET p1 == IF d.bg # NoColor /\ p.bgOverride = NoColor
                   THEN [p EXCEPT !.bgColorMode = "RGB", !.bg = d.bg.rgb, !.bgOverride = d.bg]
                   ELSE p
             p2 == IF d.fg # NoColor /\ p.fgOverride = NoColor
                   THEN [p1 EXCEPT !.fgColorMode = "RGB", !.fg = d.fg.rgb, !.fgOverride = d.fg]
                   ELSE p1
         IN  [p2 EXCEPT !.isTop = (d.layer = "top")]

\* One call of the callback of the second decoration scan: a decoration
\* below the top layer is skipped once the top flag is set; else its colours
\* override and the flag becomes whether this decoration is a top one.
DecorationOverride(p, d) ==
    IF d.layer # "top" /\ p.isTop THEN p
    ELSE LET p1 == IF d.bg # NoColor
                   THEN [p EXCEPT !.bgColorMode = "RGB", !.bg = d.bg.rgb, !.bgOverride = d.bg]
                   ELSE p
             p2 == IF d.fg # NoColor
                   THEN [p1 EXCEPT !.fgColorMode = "RGB", !.fg = d.fg.rgb, !.fgOverride = d.fg]
                   ELSE p1
         IN  [p2 EXCEPT !.isTop = (d.layer = "top")]

RECURSIVE DecorationScan(_, _, _)
DecorationScan(p, decorations, i) ==
    IF i > Len(decorations) THEN p
    ELSE DecorationScan(DecorationOverride(p, Decoration(decorations[i])), decorations, i + 1)

\* The selection override: applied to a selected cell whose decorations left
\* the top flag unset.
SelectionOverride(p, isInSelection, o) ==
    IF ~p.isTop /\ isInSelection
    THEN LET sb == IF o.isFocused THEN SelectionBackgroundOpaque
                   ELSE SelectionInactiveBackgroundOpaque
             p1 == [p EXCEPT !.bgOverride = sb, !.bg = sb.rgb, !.bgColorMode = "RGB",
                             !.isTop = TRUE]
         IN  IF o.selectionForeground # NoColor
             THEN [p1 EXCEPT !.fgColorMode = "RGB", !.fg = o.selectionForeground.rgb,
                             !.fgOverride = o.selectionForeground]
             ELSE p1
    ELSE p

\* The resolved background colour of a paint.
ResolvedBg(p) ==
    CASE p.bgColorMode \in {"P16", "P256"} -> Ansi(p.bg)
      [] p.bgColorMode = "RGB" -> ToColor(p.bg)
      [] OTHER -> IF p.isInverse THEN ThemeForeground ELSE ThemeBackground

\* The colours of a cell as createRow resolves them when it opens a span:
\* the words' colours, swapped under inverse; the decoration overrides; the
\* selection; the resolved background; and the dimmed background override.
ResolvePaint(cell, decorations, isInSelection, o) ==
    LET inv == isInverse(cell)
        p0 == [fg |-> IF inv THEN getBgColor(cell) ELSE getFgColor(cell),
               fgColorMode |-> IF inv THEN getBgColorMode(cell) ELSE getFgColorMode(cell),
               bg |-> IF inv THEN getFgColor(cell) ELSE getBgColor(cell),
               bgColorMode |-> IF inv THEN getFgColorMode(cell) ELSE getBgColorMode(cell),
               isInverse |-> inv, bgOverride |-> NoColor, fgOverride |-> NoColor,
               isTop |-> FALSE]
        p1 == DecorationScan(p0, decorations, 1)
        p2 == SelectionOverride(p1, isInSelection, o)
        rb == ResolvedBg(p2)
    IN  [fg |-> p2.fg, fgColorMode |-> p2.fgColorMode, bg |-> p2.bg,
         bgColorMode |-> p2.bgColorMode, isInverse |-> inv,
         fgOverride |-> p2.fgOverride, isTop |-> p2.isTop, resolvedBg |-> rb,
         bgOverride |-> IF p2.bgOverride = NoColor /\ isDim(cell)
                        THEN MultiplyOpacityHalf(rb) ELSE p2.bgOverride]

\* The class and the style a new background span gets from a paint.
BackgroundClasses(p) ==
    CASE p.bgColorMode \in {"P16", "P256"} -> <<"xterm-bg", "xterm-bg-" \o ToString(p.bg)>>
      [] p.bgColorMode = "RGB" -> <<"xterm-bg">>
      [] OTHER -> IF p.isInverse
                  THEN <<"xterm-bg", "xterm-bg-" \o ToString(INVERTED_DEFAULT_COLOR)>>
                  ELSE <<"xterm-bg">>
BackgroundColorStyle(p) ==
    IF p.bgColorMode = "RGB" THEN HexColor(p.bg) ELSE ""

\* A new background span at column col: its left edge, no width yet.
NewBackgroundElement(col, p) ==
    [left |-> CellWidthPx * col, width |-> Undef,
     classes |-> BackgroundClasses(p), backgroundColor |-> BackgroundColorStyle(p)]

\* ------------------------------------------------------- character spans

\* The classes of the cursor, pushed when the cursor is drawn on the cell.
CursorClasses(o) ==
    <<"xterm-cursor">> \o
    (IF o.isFocused
     THEN (IF o.cursorBlink THEN <<"xterm-cursor-blink">> ELSE <<>>) \o
          <<CASE o.cursorStyle = "bar" -> "xterm-cursor-bar"
              [] o.cursorStyle = "underline" -> "xterm-cursor-underline"
              [] OTHER -> "xterm-cursor-block">>
     ELSE CASE o.cursorInactiveStyle = "outline" -> <<"xterm-cursor-outline">>
            [] o.cursorInactiveStyle = "block" -> <<"xterm-cursor-block">>
            [] o.cursorInactiveStyle = "bar" -> <<"xterm-cursor-bar">>
            [] o.cursorInactiveStyle = "underline" -> <<"xterm-cursor-underline">>
            [] OTHER -> <<>>)

\* The text a new character span starts with: blanked for an invisible cell,
\* and a space made non-breaking under an underline or an overline.
InitialCharText(cell) ==
    LET t0 == IF isInvisible(cell) THEN WHITESPACE_CELL_CHAR
              ELSE IF getChars(cell) = <<>> THEN WHITESPACE_CELL_CHAR ELSE getChars(cell)
        t1 == IF isUnderline(cell) /\ t0 = WHITESPACE_CELL_CHAR THEN NBSP ELSE t0
    IN  IF isOverline(cell) /\ t1 = WHITESPACE_CELL_CHAR THEN NBSP ELSE t1

\* style.textDecorationColor of an underlined cell with an underline colour.
UnderlineColorStyle(cell, o) ==
    IF ~isUnderline(cell) \/ isUnderlineColorDefault(cell) THEN ""
    ELSE IF isUnderlineColorRGB(cell)
    THEN LET v == getUnderlineColor(cell)
         IN  "rgb(" \o ToString((v \div 65536) % 256) \o "," \o
             ToString((v \div 256) % 256) \o "," \o ToString(v % 256) \o ")"
    ELSE LET c == getUnderlineColor(cell)
             fg == IF o.drawBoldTextInBrightColors /\ isBold(cell) /\ c < 8 THEN c + 8 ELSE c
         IN  Css(Ansi(fg))

\* The foreground of a new character span: the class or the colour of the
\* paint's mode, unless minimum contrast sets the colour.
ForegroundPaint(cell, p, o, cs) ==
    CASE p.fgColorMode \in {"P16", "P256"} ->
           LET fg == IF isBold(cell) /\ p.fg < 8 /\ o.drawBoldTextInBrightColors
                     THEN p.fg + 8 ELSE p.fg
               mc == applyMinimumContrast(cs, o.minimumContrastRatio, p.resolvedBg, Ansi(fg),
                                          cell, p.bgOverride, NoColor)
           IN  [classes |-> IF mc.applied THEN <<>> ELSE <<"xterm-fg-" \o ToString(fg)>>,
                color |-> IF mc.applied THEN Css(mc.color) ELSE "", caches |-> mc.caches,
                contrast |-> mc]
      [] p.fgColorMode = "RGB" ->
           LET mc == applyMinimumContrast(cs, o.minimumContrastRatio, p.resolvedBg, ToColor(p.fg),
                                          cell, p.bgOverride, p.fgOverride)
           IN  [classes |-> <<>>,
                color |-> IF mc.applied THEN Css(mc.color) ELSE HexColor(p.fg),
                caches |-> mc.caches, contrast |-> mc]
      [] OTHER ->
           LET mc == applyMinimumContrast(cs, o.minimumContrastRatio, p.resolvedBg, ThemeForeground,
                                          cell, p.bgOverride, p.fgOverride)
           IN  [classes |-> IF ~mc.applied /\ p.isInverse
                            THEN <<"xterm-fg-" \o ToString(INVERTED_DEFAULT_COLOR)>> ELSE <<>>,
                color |-> IF mc.applied THEN Css(mc.color) ELSE "", caches |-> mc.caches,
                contrast |-> mc]

\* The class list of a new character span, in the order it is pushed.
CharClasses(cell, p, o, drawCursor, fgClasses) ==
    (IF p.isTop THEN <<"xterm-decoration-top">> ELSE <<>>) \o
    (IF drawCursor THEN CursorClasses(o) ELSE <<>>) \o
    (IF isBold(cell) THEN <<"xterm-bold">> ELSE <<>>) \o
    (IF isItalic(cell) THEN <<"xterm-italic">> ELSE <<>>) \o
    (IF isDim(cell) THEN <<"xterm-dim">> ELSE <<>>) \o
    (IF isUnderline(cell)
     THEN <<"xterm-underline-" \o ToString(cell.ext.underlineStyle)>> ELSE <<>>) \o
    (IF isOverline(cell) THEN <<"xterm-overline">> ELSE <<>>) \o
    (IF isStrikethrough(cell) THEN <<"xterm-strikethrough">> ELSE <<>>) \o
    fgClasses

\* The spacing a span is given only when it differs from it.
defaultSpacing == 0

\* A new character span for the cell: classes, colours and spacing are set
\* now; the text is set now only for a cursor cell or a joined cell, and on
\* closing the span otherwise.
NewCharElement(cell, p, o, cs, isCursorCell, isJoined, isLinkHover, spacing) ==
    LET drawCursor == ~o.isCursorHidden /\ isCursorCell /\ o.isCursorInitialized
        fgp == ForegroundPaint(cell, p, o, cs)
    IN  [element |->
           [textContent |-> IF ~isCursorCell /\ ~isJoined THEN <<>> ELSE InitialCharText(cell),
            className |-> CharClasses(cell, p, o, drawCursor, fgp.classes),
            color |-> fgp.color,
            textDecoration |-> IF isLinkHover THEN "underline" ELSE "",
            textDecorationColor |-> UnderlineColorStyle(cell, o),
            letterSpacing |-> IF spacing # defaultSpacing THEN <<spacing>> ELSE <<>>],
         caches |-> fgp.caches, contrast |-> fgp.contrast]

\* ---------------------------------------------------------------- actions

\* handleSelectionChanged(start, end, columnSelectMode): the three fields
\* are stored.
HandleSelectionChanged ==
    /\ pc = "idle"
    /\ pendingSel.pending
    /\ sel' = pendingSel.value
    /\ pendingSel' = [pendingSel EXCEPT !.pending = FALSE]
    /\ UNCHANGED <<inputs, pc, x, loc, charElements, backgroundElements, caches, result, hist,
                   earlier, others>>

\* (mutant) the length is raised to the cursor column, not past it.
LineLengthToCursor(line, s, a) ==
    LET n == IF isRowInSelection(s, a.row) THEN Len(line) ELSE getNoBgTrimmedLength(line)
    IN  IF a.isCursorRow /\ n < a.cursorX THEN a.cursorX ELSE n

\* The length createRow iterates over.
LineLength(line, s, a) ==
    LET n == IF isRowInSelection(s, a.row) THEN Len(line) ELSE getNoBgTrimmedLength(line)
    IN  IF a.isCursorRow /\ n < a.cursorX + 1 THEN a.cursorX + 1 ELSE n

\* The locals of createRow before the loop.
InitialLocals(line, s, a, joinedRanges) ==
    [lineLength |-> LineLength(line, s, a),
     cursorX |-> a.cursorX,
     joinedRanges |-> joinedRanges,
     hasCharElement |-> FALSE, charCellAmount |-> 0, charText |-> <<>>,
     hasBackgroundElement |-> FALSE, backgroundCellAmount |-> 0,
     oldBg |-> BgWord("DEFAULT", 0, {}), oldFg |-> FgWord("DEFAULT", 0, {}),
     oldExt |-> DefaultExt, oldLinkHover |-> FALSE, oldSpacing |-> 0,
     oldIsInSelection |-> FALSE, oldDecorations |-> <<>>, spacing |-> 0]

\* createRow is entered: the locals are set up and the loop starts at column 0.
CreateRow ==
    /\ pc = "idle"
    /\ ~pendingSel.pending
    /\ pc' = "loop"
    /\ x' = 0
    /\ loc' = InitialLocals(lineData, sel, args, joinedSrc)
    /\ charElements' = <<>>
    /\ backgroundElements' = <<>>
    /\ hist' = <<>>
    /\ UNCHANGED <<inputs, pendingSel, sel, caches, result, earlier, others>>

\* (mutant) no cell is passed over.
OwnedByLeftCellNever(cell) == FALSE

\* The test that makes the loop pass over a cell: its width is 0.
OwnedByLeftCell(cell) == getWidth(cell) = 0

\* (mutant) an extended background span grows by one cell whatever the width.
ExtendBackgroundByOne(amount, width) == amount + 1

\* The open background span extended by a cell: its cell amount grows by
\* the width of the cell.
ExtendBackground(amount, width) == amount + width

\* style.width of a background span that spans the amount of cells.
BackgroundWidthPx(amount) == amount * CellWidthPx

\* (mutant) the loop always continues at the next column.
NextColumnPlusOne(col, merged, lastCharX) == col + 1

\* The column of the next iteration: after a cell that opened a character
\* span the loop continues behind the last column of the cell.
NextColumn(col, merged, lastCharX) == (IF merged THEN col ELSE lastCharX) + 1

\* (mutant) the character spans are returned before the background spans.
ReturnValueCharsFirst(bgs, ces) == ces \o bgs

\* The list createRow returns.
ReturnValue(bgs, ces) == bgs \o ces

\* An iteration on a cell of width 0: the wide character to its left owns the
\* column, nothing is done.
LoopSkip ==
    /\ pc = "loop"
    /\ x < loc.lineLength
    /\ OwnedByLeftCell(loadCell(lineData, x))
    /\ x' = x + 1
    /\ hist' = Append(hist, [x |-> x, skipped |-> TRUE])
    /\ UNCHANGED <<inputs, pendingSel, sel, pc, loc, charElements, backgroundElements,
                   caches, result, earlier, others>>

\* The characters to render for a cell: a space for a blank cell, made
\* non-breaking under an underline or an overline.
CharsToRender(cell) ==
    LET chars == IF getChars(cell) = <<>> THEN WHITESPACE_CELL_CHAR ELSE getChars(cell)
    IN  IF chars = WHITESPACE_CELL_CHAR /\ (isUnderline(cell) \/ isOverline(cell))
        THEN NBSP ELSE chars

\* The letter-spacing that makes the cell's text as wide as its cells.
SpacingOf(cell) ==
    getWidth(cell) * CellWidthPx
    - WidthCacheGet(CharsToRender(cell), isBold(cell), isItalic(cell))

\* What an iteration on a cell of non-zero width sees before it decides.
CellView(line, s, a, dAt, l, col) ==
    LET workCell == loadCell(line, col)
        isJoined == l.joinedRanges # <<>> /\ col = Head(l.joinedRanges)[1]
        range == IF isJoined THEN Head(l.joinedRanges) ELSE <<col, col + 1>>
        cell == IF isJoined
                THEN JoinedCellData(workCell,
                                    translateToString(line, TRUE, range[1], range[2]),
                                    range[2] - range[1])
                ELSE workCell
        hasHover == a.linkStart # -1 /\ a.linkEnd # -1
    IN  [cell |-> cell, isJoined |-> isJoined,
         lastCharX |-> IF isJoined THEN range[2] - 1 ELSE col,
         width |-> getWidth(cell),
         isInSelection |-> isCellInSelection(s, col, a.row),
         isCursorCell |-> a.isCursorRow /\ col = l.cursorX,
         isLinkHover |-> hasHover /\ col >= a.linkStart /\ col <= a.linkEnd,
         decorations |-> dAt[col],
         chars |-> CharsToRender(cell),
         spacing |-> SpacingOf(cell)]

\* (mutant) a character span is never extended.
canMergeCharactersNever(l, v, o) == FALSE

\* (mutant) the selection foreground is not looked at: the foreground word
\* decides.
canMergeCharactersRawOnly(l, v, o) ==
    /\ l.hasCharElement
    /\ l.charCellAmount # 0
    /\ v.cell.fg = l.oldFg
    /\ v.cell.ext = l.oldExt
    /\ v.isLinkHover = l.oldLinkHover
    /\ isSameDecorations(v.decorations, l.oldDecorations)
    /\ v.spacing = l.oldSpacing
    /\ ~v.isCursorCell
    /\ ~v.isJoined

\* (mutant) the hover state of the link is not compared.
canMergeCharactersAnyHover(l, v, o) ==
    /\ l.hasCharElement
    /\ l.charCellAmount # 0
    /\ \/ (v.isInSelection /\ l.oldIsInSelection /\ o.selectionForeground # NoColor)
       \/ v.cell.fg = l.oldFg
    /\ v.cell.ext = l.oldExt
    /\ isSameDecorations(v.decorations, l.oldDecorations)
    /\ v.spacing = l.oldSpacing
    /\ ~v.isCursorCell
    /\ ~v.isJoined

\* Whether the cell's characters may be appended to the open character span.
canMergeCharacters(l, v, o) ==
    /\ l.hasCharElement
    /\ l.charCellAmount # 0
    /\ \/ (v.isInSelection /\ l.oldIsInSelection /\ o.selectionForeground # NoColor)
       \/ v.cell.fg = l.oldFg
    /\ v.cell.ext = l.oldExt
    /\ v.isLinkHover = l.oldLinkHover
    /\ isSameDecorations(v.decorations, l.oldDecorations)
    /\ v.spacing = l.oldSpacing
    /\ ~v.isCursorCell
    /\ ~v.isJoined

\* (mutant) the selection is not looked at: the background word decides.
canMergeBackgroundRawOnly(l, v) ==
    /\ l.hasBackgroundElement
    /\ l.backgroundCellAmount # 0
    /\ isSameDecorations(v.decorations, l.oldDecorations)
    /\ v.cell.bg = l.oldBg

\* Whether the cell may extend the open background span.
canMergeBackground(l, v) ==
    /\ l.hasBackgroundElement
    /\ l.backgroundCellAmount # 0
    /\ isSameDecorations(v.decorations, l.oldDecorations)
    /\ \/ (v.isInSelection /\ l.oldIsInSelection)
       \/ (~v.isInSelection /\ ~l.oldIsInSelection /\ v.cell.bg = l.oldBg)

\* The sequence with its last element replaced.
SetLast(seq, e) == [seq EXCEPT ![Len(seq)] = e]

\* What the history keeps of a call of _applyMinimumContrast: nothing was
\* requested when no character span was opened.
ContrastRequest(mc, opened) ==
    [requested |-> opened /\ mc.requested, computed |-> opened /\ mc.computed,
     applied |-> opened /\ mc.applied, color |-> mc.color,
     dim |-> mc.dim, bg |-> mc.bg, fg |-> mc.fg]

\* An iteration on a cell of non-zero width.
LoopCell ==
    /\ pc = "loop"
    /\ x < loc.lineLength
    /\ ~OwnedByLeftCell(loadCell(lineData, x))
    /\ LET v == CellView(lineData, sel, args, decoAt, loc, x)
           mergeC == canMergeCharacters(loc, v, opts)
           mergeB == canMergeBackground(loc, v)
           \* the joined range is taken off the list
           l0 == [loc EXCEPT !.joinedRanges = IF v.isJoined THEN Tail(@) ELSE @,
                             !.spacing = v.spacing]
           l1 == IF mergeB THEN [l0 EXCEPT !.backgroundCellAmount = ExtendBackground(@, v.width)] ELSE l0
           l2 == IF mergeC THEN [l1 EXCEPT !.charText = @ \o v.chars, !.charCellAmount = @ + 1]
                 ELSE l1
           work == ~mergeC \/ ~mergeB
           l3 == IF work
                 THEN [l2 EXCEPT !.oldBg = v.cell.bg, !.oldFg = v.cell.fg,
                                 !.oldExt = v.cell.ext, !.oldLinkHover = v.isLinkHover,
                                 !.oldSpacing = v.spacing,
                                 !.oldIsInSelection = v.isInSelection,
                                 !.oldDecorations = v.decorations]
                 ELSE l2
           p == ResolvePaint(v.cell, v.decorations, v.isInSelection, opts)
           \* a new background span: the open one gets its width
           bgs == IF mergeB THEN backgroundElements
                  ELSE (IF loc.backgroundCellAmount # 0
                        THEN SetLast(backgroundElements,
                                     [backgroundElements[Len(backgroundElements)] EXCEPT
                                        !.width = BackgroundWidthPx(loc.backgroundCellAmount)])
                        ELSE backgroundElements)
                       \o <<NewBackgroundElement(x, p)>>
           l4 == IF mergeB THEN l3
                 ELSE [l3 EXCEPT !.hasBackgroundElement = TRUE, !.backgroundCellAmount = v.width]
           \* a new character span: the open one gets its text
           nce == NewCharElement(v.cell, p, opts, caches, v.isCursorCell, v.isJoined,
                                 v.isLinkHover, v.spacing)
           ces == IF mergeC THEN charElements
                  ELSE (IF loc.charCellAmount # 0
                        THEN SetLast(charElements,
                                     [charElements[Len(charElements)] EXCEPT
                                        !.textContent = loc.charText])
                        ELSE charElements)
                       \o <<nce.element>>
           l5 == IF mergeC THEN l4
                 ELSE [l4 EXCEPT !.hasCharElement = TRUE,
                                 !.charText = InitialCharText(v.cell),
                                 !.charCellAmount = IF ~v.isCursorCell /\ ~v.isJoined THEN 1 ELSE 0,
                                 !.cursorX = IF v.isJoined /\ @ >= x /\ @ <= v.lastCharX
                                             THEN x ELSE @]
       IN  /\ loc' = l5
           /\ backgroundElements' = bgs
           /\ charElements' = ces
           /\ caches' = IF mergeC THEN caches ELSE nce.caches
           /\ x' = NextColumn(x, mergeC, v.lastCharX)
           /\ hist' = Append(hist,
                  [x |-> x, skipped |-> FALSE, view |-> v,
                   mergedChars |-> mergeC, mergedBackground |-> mergeB,
                   work |-> work, paint |-> p,
                   contrast |-> ContrastRequest(nce.contrast, ~mergeC),
                   charIndex |-> Len(ces), backgroundIndex |-> Len(bgs),
                   next |-> NextColumn(x, mergeC, v.lastCharX)])
    /\ UNCHANGED <<inputs, pendingSel, sel, pc, result, earlier, others>>

\* The loop has ended: the open spans get their text and their width, and
\* the background spans followed by the character spans are returned.
Return ==
    /\ pc = "loop"
    /\ x >= loc.lineLength
    /\ LET ces == IF loc.hasCharElement /\ loc.charCellAmount # 0
                  THEN SetLast(charElements,
                               [charElements[Len(charElements)] EXCEPT
                                  !.textContent = loc.charText])
                  ELSE charElements
           bgs == IF loc.hasBackgroundElement /\ loc.backgroundCellAmount # 0
                  THEN SetLast(backgroundElements,
                               [backgroundElements[Len(backgroundElements)] EXCEPT
                                  !.width = BackgroundWidthPx(loc.backgroundCellAmount)])
                  ELSE backgroundElements
       IN  /\ charElements' = ces
           /\ backgroundElements' = bgs
           /\ result' = ReturnValue(bgs, ces)
    /\ pc' = "done"
    /\ UNCHANGED <<inputs, pendingSel, sel, x, loc, caches, hist, earlier, others>>

\* createRow is called at most MaxEarlier times again.
MaxEarlier == 1

\* createRow is entered again after it returned, with the same arguments and
\* a fresh list of joined ranges; the caches are the ones the earlier calls
\* left.
CreateRowAgain ==
    /\ pc = "done"
    /\ Len(earlier) < MaxEarlier
    /\ earlier' = Append(earlier, result)
    /\ pc' = "loop"
    /\ x' = 0
    /\ loc' = InitialLocals(lineData, sel, args, joinedSrc)
    /\ charElements' = <<>>
    /\ backgroundElements' = <<>>
    /\ hist' = <<>>
    /\ UNCHANGED <<inputs, pendingSel, sel, caches, result, others>>

Next ==
    \/ HandleSelectionChanged
    \/ CreateRow
    \/ LoopSkip
    \/ LoopCell
    \/ Return

\* The steps when createRow is called more than once.
NextAgain ==
    \/ Next
    \/ CreateRowAgain

\* ------------------------------------------------------------ throwIfFalsy

\* The values of the language a caller may pass: undefined, null, the
\* booleans, the numbers (NaN apart), the strings and the objects.
JsValue(type, bool, num, str) == [type |-> type, bool |-> bool, num |-> num, str |-> str]

\* !value is false for an object, a non-empty string, a number that is
\* neither zero nor NaN, and true.
ToBoolean(value) ==
    CASE value.type \in {"undefined", "null", "NaN"} -> FALSE
      [] value.type = "boolean" -> value.bool
      [] value.type = "number" -> value.num # 0
      [] value.type = "string" -> value.str # ""
      [] OTHER -> TRUE

\* (mutant) only the absent values throw.
throwIfAbsent(value) ==
    IF value.type \in {"undefined", "null"}
    THEN [thrown |-> TRUE, returned |-> JsValue("undefined", FALSE, 0, "")]
    ELSE [thrown |-> FALSE, returned |-> value]

\* throwIfFalsy(value): throws on a falsy value, returns any other.
throwIfFalsy(value) ==
    IF ~ToBoolean(value)
    THEN [thrown |-> TRUE, returned |-> JsValue("undefined", FALSE, 0, "")]
    ELSE [thrown |-> FALSE, returned |-> value]

\* throwIfFalsy is called at most MaxGuardCalls times.
MaxGuardCalls == 2

\* The values the callers pass; the numbers are those of -1..MaxNumber.
MaxNumber == 1
GuardValues ==
    {JsValue("undefined", FALSE, 0, ""), JsValue("null", FALSE, 0, ""),
     JsValue("boolean", FALSE, 0, ""), JsValue("boolean", TRUE, 0, ""),
     JsValue("NaN", FALSE, 0, ""),
     JsValue("string", FALSE, 0, ""), JsValue("string", FALSE, 0, "a"),
     JsValue("object", FALSE, 0, "element")}
    \cup {JsValue("number", FALSE, n, "") : n \in (-1)..MaxNumber}

\* A call of throwIfFalsy.
ThrowIfFalsy ==
    /\ Len(guard) < MaxGuardCalls
    /\ \E value \in GuardValues :
          guard' = Append(guard, [value |-> value, outcome |-> throwIfFalsy(value)])
    /\ UNCHANGED <<rowVars, unicode, composition, viewport, image>>

\* --------------------------------------------------------- UnicodeProvider

\* The version numbers a unicode implementation may carry.
MaxVersion == 13

\* versions[impl.version]: the property name of a version number, and
\* parseFloat on a property name.
VersionKey(version) == ToString(version)
parseFloat(key) == CHOOSE n \in (0..MaxVersion) : ToString(n) = key

\* sort((a, b) => a - b) on a set of numbers.
RECURSIVE SortAscending(_)
SortAscending(numbers) ==
    IF numbers = {} THEN <<>>
    ELSE LET least == CHOOSE n \in numbers : \A m \in numbers : n <= m
         IN  <<least>> \o SortAscending(numbers \ {least})

\* getRegisteredVersions(): the property names of the static versions object
\* parsed and sorted.
getRegisteredVersions(u) == SortAscending({parseFloat(key) : key \in u.versions})

\* distances.reduce((iMin, x, i, arr) => x < arr[iMin] ? i : iMin, 0), the
\* indices counted from 1.
RECURSIVE ReduceClosest(_, _, _)
ReduceClosest(distances, iMin, i) ==
    IF i > Len(distances) THEN iMin
    ELSE ReduceClosest(distances, IF distances[i] < distances[iMin] THEN i ELSE iMin, i + 1)

\* The same with x <= arr[iMin]: on a tie the later version is taken.
RECURSIVE ReduceClosestLast(_, _, _)
ReduceClosestLast(distances, iMin, i) ==
    IF i > Len(distances) THEN iMin
    ELSE ReduceClosestLast(distances, IF distances[i] <= distances[iMin] THEN i ELSE iMin,
                           i + 1)

\* (mutant) the last of the closest versions.
closestIndexLast(distances) == ReduceClosestLast(distances, 1, 1)

\* The index of the closest version: the first of the least distances.
closestIndexOf(distances) == ReduceClosest(distances, 1, 1)

\* setActiveVersion(version, mode): the provider afterwards, whether the
\* call threw, and what it returned. The mode "undefined" is no mode.
setActiveVersion(u, version, mode) ==
    LET versions == getRegisteredVersions(u)
        abs(n) == IF n < 0 THEN -n ELSE n
        distances == [i \in 1..Len(versions) |-> abs(version - versions[i])]
        closestIndex == closestIndexOf(distances)
        closest == versions[closestIndex]
        newVersion ==
            CASE mode = "next" /\ closest < version /\ closestIndex < Len(versions)
                   -> versions[closestIndex + 1]
              [] mode = "previous" /\ closest > version /\ closestIndex > 1
                   -> versions[closestIndex - 1]
              [] OTHER -> closest
        call == [op |-> "setActiveVersion", version |-> version, mode |-> mode]
    IN  IF Len(versions) = 0
        THEN [u EXCEPT !.call = call, !.thrown = TRUE, !.returned = 0]
        ELSE IF mode = "exact" /\ version # closest
        THEN [u EXCEPT !.call = call, !.thrown = TRUE, !.returned = 0]
        ELSE [u EXCEPT !.wcwidth = VersionKey(newVersion), !.version = newVersion,
                       !.call = call, !.thrown = FALSE, !.returned = newVersion]

\* registerVersion(impl): throws when the version is registered, else stores
\* the implementation under its version and calls the static register
\* callbacks in their order.
registerVersion(u, version) ==
    LET call == [op |-> "registerVersion", version |-> version, mode |-> "undefined"]
    IN  IF VersionKey(version) \in u.versions
        THEN [u EXCEPT !.call = call, !.thrown = TRUE, !.returned = 0, !.invoked = <<>>]
        ELSE [u EXCEPT !.versions = @ \cup {VersionKey(version)},
                       !.call = call, !.thrown = FALSE, !.returned = 0,
                       !.invoked = u.registerCallbacks]

\* The provider instances that take listeners, and the callbacks: one a
\* caller hands to the static method, one the callers hand to instances.
Instances == {"A", "B"}
StaticCallback == [kind |-> "static", instance |-> "", callback |-> "s", id |-> 0]

\* The function addRegisterListener wraps around a callback: each call
\* makes a new one.
Wrapper(instance, callback, id) ==
    [kind |-> "wrapper", instance |-> instance, callback |-> callback, id |-> id]

\* array.indexOf(f), counted from 1, 0 for -1; and array.splice(pos, 1).
IndexOf(array, f) ==
    IF \E i \in 1..Len(array) : array[i] = f
    THEN CHOOSE i \in 1..Len(array) : array[i] = f /\ \A j \in 1..(i - 1) : array[j] # f
    ELSE 0
Splice(array, pos) == SubSeq(array, 1, pos - 1) \o SubSeq(array, pos + 1, Len(array))

\* What a call of a listener method leaves in the fields of the last call:
\* whether it threw, and no function called.
ListenerCall(u, thrown) ==
    [u EXCEPT !.call = [op |-> "listener", version |-> 0, mode |-> "undefined"],
              !.thrown = thrown, !.returned = 0, !.invoked = <<>>]

\* static addRegisterListener(callback).
staticAddRegisterListener(u, f) ==
    [u EXCEPT !.registerCallbacks = Append(@, f)]

\* static removeRegisterListener(callback).
staticRemoveRegisterListener(u, f) ==
    IF IndexOf(u.registerCallbacks, f) # 0
    THEN [u EXCEPT !.registerCallbacks = Splice(@, IndexOf(u.registerCallbacks, f))]
    ELSE u

\* static removeAllRegisterListener().
removeAllRegisterListener(u) ==
    [u EXCEPT !.registerCallbacks = <<>>]

\* addRegisterListener(callback) of an instance: on a disposed instance the
\* push on null throws before anything is added.
addRegisterListener(u, instance, callback) ==
    IF u.instances[instance].disposed THEN ListenerCall(u, TRUE)
    ELSE LET func == Wrapper(instance, callback, u.funcs + 1)
             u1 == [u EXCEPT !.funcs = @ + 1,
                             !.instances[instance].registerCallbacks =
                                  Append(@, [callback |-> callback, func |-> func])]
         IN  ListenerCall(staticAddRegisterListener(u1, func), FALSE)

\* removeRegisterListener(callback) of an instance: the first entry of the
\* callback is removed here and its function from the static list.
removeRegisterListener(u, instance, callback) ==
    LET list == u.instances[instance].registerCallbacks
        found == {i \in 1..Len(list) : list[i].callback = callback}
        pos == IF found = {} THEN 0 ELSE CHOOSE i \in found : \A j \in found : i <= j
    IN  IF u.instances[instance].disposed THEN ListenerCall(u, TRUE)
        ELSE IF pos # 0
        THEN ListenerCall([staticRemoveRegisterListener(u, list[pos].func) EXCEPT
                              !.instances[instance].registerCallbacks = Splice(@, pos)],
                          FALSE)
        ELSE ListenerCall(u, FALSE)

\* (mutant) dispose removes the function of each callback once: a callback
\* added twice keeps its second function registered.
RECURSIVE RemoveOncePerCallback(_, _, _)
RemoveOncePerCallback(u, list, seen) ==
    IF list = <<>> THEN u
    ELSE RemoveOncePerCallback(IF Head(list).callback \in seen THEN u
                               ELSE staticRemoveRegisterListener(u, Head(list).func),
                               Tail(list), seen \cup {Head(list).callback})
disposeOncePerCallback(u, instance) ==
    IF u.instances[instance].disposed THEN ListenerCall(u, TRUE)
    ELSE ListenerCall([RemoveOncePerCallback(u, u.instances[instance].registerCallbacks, {}) EXCEPT
                          !.instances[instance] = [disposed |-> TRUE, registerCallbacks |-> <<>>]],
                      FALSE)

\* dispose() of an instance: each of its functions is removed from the
\* static list and its own list becomes null; a second call throws on null.
RECURSIVE RemoveAll(_, _)
RemoveAll(u, list) ==
    IF list = <<>> THEN u
    ELSE RemoveAll(staticRemoveRegisterListener(u, Head(list).func), Tail(list))
dispose(u, instance) ==
    IF u.instances[instance].disposed THEN ListenerCall(u, TRUE)
    ELSE ListenerCall([RemoveAll(u, u.instances[instance].registerCallbacks) EXCEPT
                          !.instances[instance] = [disposed |-> TRUE, registerCallbacks |-> <<>>]],
                      FALSE)

\* The provider a terminal constructs: v6 and v11 are registered when the
\* module is loaded, and the constructor activates the version closest to 200.
\* With it the static list of register callbacks, the functions the last
\* registerVersion called, the own lists of two more instances (empty
\* instead of null once disposed), the number of wrapping functions made,
\* the number of times the static callback is registered and the wrapping
\* functions removeAllRegisterListener took from the static list.
UnicodeProvider ==
    setActiveVersion([versions |-> {VersionKey(6), VersionKey(11)}, version |-> 0,
                      wcwidth |-> "", call |-> [op |-> "", version |-> 0, mode |-> ""],
                      thrown |-> FALSE, returned |-> 0,
                      registerCallbacks |-> <<>>, invoked |-> <<>>, funcs |-> 0, statics |-> 0, cleared |-> {},
                      instances |-> [i \in Instances |->
                                        [disposed |-> FALSE, registerCallbacks |-> <<>>]]],
                     200, "undefined")

\* At most MaxRegistrations versions are registered by addons.
MaxRegistrations == 2

\* An addon registers a version.
RegisterVersion ==
    /\ Cardinality(unicode.versions) < 2 + MaxRegistrations
    /\ \E version \in (0..MaxVersion) : unicode' = registerVersion(unicode, version)
    /\ UNCHANGED <<rowVars, guard, composition, viewport, image>>

\* Listeners are added at most MaxListeners times.
MaxListeners == 3

\* A caller adds the static callback, or removes it.
StaticAddRegisterListener ==
    /\ unicode.statics + unicode.funcs < MaxListeners
    /\ unicode' = [ListenerCall(staticAddRegisterListener(unicode, StaticCallback),
                                 FALSE)
                     EXCEPT !.statics = @ + 1]
    /\ UNCHANGED <<rowVars, guard, composition, viewport, image>>

StaticRemoveRegisterListener ==
    /\ unicode' = [ListenerCall(staticRemoveRegisterListener(unicode, StaticCallback),
                                 FALSE)
                     EXCEPT !.statics = IF @ > 0 THEN @ - 1 ELSE 0]
    /\ UNCHANGED <<rowVars, guard, composition, viewport, image>>

\* A caller removes every listener from the static list.
RemoveAllRegisterListener ==
    /\ unicode' = [ListenerCall(removeAllRegisterListener(unicode), FALSE)
                     EXCEPT !.statics = 0,
                            !.cleared = @ \cup {unicode.registerCallbacks[i].id :
                                                   i \in {j \in 1..Len(unicode.registerCallbacks) :
                                                             unicode.registerCallbacks[j].kind = "wrapper"}}]
    /\ UNCHANGED <<rowVars, guard, composition, viewport, image>>

\* A caller adds a callback to an instance, or removes it.
AddRegisterListener ==
    /\ unicode.statics + unicode.funcs < MaxListeners
    /\ \E instance \in Instances :
          unicode' = addRegisterListener(unicode, instance, "c")
    /\ UNCHANGED <<rowVars, guard, composition, viewport, image>>

RemoveRegisterListener ==
    /\ \E instance \in Instances :
          unicode' = removeRegisterListener(unicode, instance, "c")
    /\ UNCHANGED <<rowVars, guard, composition, viewport, image>>

\* An instance is disposed.
Dispose ==
    /\ \E instance \in Instances : unicode' = dispose(unicode, instance)
    /\ UNCHANGED <<rowVars, guard, composition, viewport, image>>

\* A caller asks for a version.
SetActiveVersion ==
    /\ \E version \in (0..MaxVersion), mode \in {"undefined", "exact", "closest", "next", "previous"} :
          unicode' = setActiveVersion(unicode, version, mode)
    /\ UNCHANGED <<rowVars, guard, composition, viewport, image>>

\* ----------------------------------------------------------- ImageRenderer

PLACEHOLDER_HEIGHT == 24

\* The cell heights the render service reports: one below the default
\* placeholder height and one above it.
CellHeights == {17, 30}

\* ImageRenderer before its construction, with the terminal core it is given:
\* whether the core has a screen element and the canvases attached to it,
\* which function core.open and the render service's setRenderer are (the
\* core's own or the renderer's wrapper) and the cell height of the
\* dimensions; then the renderer's fields (0 and "undefined" for undefined),
\* the canvases it created, the bitmap promises pending, whether the
\* placeholder was switched off last, and the last call with its outcome.
ImageRenderer ==
    [screenElement |-> FALSE, children |-> {}, open |-> "core", setRenderer |-> "core",
     actualCellHeight |-> 0,
     constructed |-> FALSE, disposed |-> FALSE, showPlaceholder |-> FALSE,
     canvas |-> 0, ctx |-> FALSE, oldOpen |-> "undefined", rs |-> FALSE,
     oldSetRenderer |-> "undefined", placeholder |-> 0, placeholderBitmap |-> FALSE,
     created |-> 0, promises |-> 0, off |-> FALSE,
     last |-> [op |-> "", drawn |-> FALSE, thrown |-> FALSE]]

ImageCall(r, op, drawn, thrown) ==
    [r EXCEPT !.last = [op |-> op, drawn |-> drawn, thrown |-> thrown]]

\* get cellSize().height: -1 without a render service.
cellSizeHeight(r) ==
    IF r.rs /\ r.actualCellHeight # 0 THEN r.actualCellHeight ELSE -1

\* _removeLayerFromDom(): the canvas, if there is one and it has a parent,
\* leaves its parent.
removeLayerFromDom(r) ==
    IF r.canvas # 0 THEN [r EXCEPT !.children = @ \ {r.canvas}] ELSE r

\* _insertLayerToDom(): a new canvas is appended to the screen element.
insertLayerToDom(r) ==
    [r EXCEPT !.created = @ + 1, !.canvas = r.created + 1,
              !.children = @ \cup {r.created + 1}, !.ctx = TRUE]

\* _createPlaceHolder(height): the bitmap is dropped, a placeholder canvas
\* of the height is made and a bitmap of it is asked for.
createPlaceHolder(r, height) ==
    [r EXCEPT !.placeholderBitmap = FALSE, !.placeholder = height, !.promises = @ + 1]

\* _open(): the render service is taken, its setRenderer bound and wrapped,
\* the layer inserted and the placeholder made if it was asked for.
open(r) ==
    LET r1 == insertLayerToDom([r EXCEPT !.rs = TRUE, !.oldSetRenderer = r.setRenderer,
                                         !.setRenderer = "wrapper"])
    IN  IF r.showPlaceholder
        THEN [createPlaceHolder(r1, PLACEHOLDER_HEIGHT) EXCEPT !.off = FALSE]
        ELSE r1

\* The core's own open(parent): the first call makes the screen element and
\* the render service. A later call either leaves both as they are or makes
\* new ones, the screen element empty and setRenderer the service's own.
coreOpen(r, height, fresh) ==
    IF ~r.screenElement \/ fresh
    THEN [r EXCEPT !.screenElement = TRUE, !.children = {}, !.setRenderer = "core",
                   !.actualCellHeight = height]
    ELSE r

\* terminal.open(parent): the function core.open is at the moment; the
\* wrapper calls the one it replaced and then _open().
terminalOpen(r, height, fresh) ==
    IF r.open = "wrapper"
    THEN open(IF r.oldOpen # "undefined" THEN coreOpen(r, height, fresh) ELSE r)
    ELSE coreOpen(r, height, fresh)

\* constructor(_terminal, _showPlaceholder).
constructor(r, showPlaceholder) ==
    LET r1 == [r EXCEPT !.constructed = TRUE, !.showPlaceholder = showPlaceholder,
                        !.oldOpen = r.open, !.open = "wrapper"]
    IN  IF r.screenElement THEN open(r1) ELSE r1

\* renderService.setRenderer(renderer): the wrapper removes the layer, calls
\* the function _oldSetRenderer holds and inserts a layer; when that
\* function is the wrapper itself the calls never end and the stack
\* overflows before a layer is inserted.
setRenderer(r) ==
    IF r.setRenderer = "wrapper"
    THEN IF r.oldSetRenderer = "wrapper"
         THEN ImageCall(removeLayerFromDom(r), "setRenderer", FALSE, TRUE)
         ELSE ImageCall(insertLayerToDom(removeLayerFromDom(r)), "setRenderer", FALSE, FALSE)
    ELSE ImageCall(r, "setRenderer", FALSE, FALSE)

\* dispose().
disposeRenderer(r) ==
    LET r1 == removeLayerFromDom(r)
        r2 == IF r1.oldOpen # "undefined"
              THEN [r1 EXCEPT !.open = r1.oldOpen, !.oldOpen = "undefined"] ELSE r1
        r3 == IF r2.rs /\ r2.oldSetRenderer # "undefined"
              THEN [r2 EXCEPT !.setRenderer = r2.oldSetRenderer, !.oldSetRenderer = "undefined"]
              ELSE r2
    IN  ImageCall([r3 EXCEPT !.rs = FALSE, !.canvas = 0, !.ctx = FALSE,
                             !.placeholderBitmap = FALSE, !.placeholder = 0,
                             !.disposed = TRUE, !.off = TRUE],
                  "dispose", FALSE, FALSE)

\* showPlaceholder(value).
showPlaceholder(r, value) ==
    IF value
    THEN ImageCall([(IF r.placeholder = 0 /\ cellSizeHeight(r) # -1
                     THEN createPlaceHolder(r, Max(cellSizeHeight(r) + 1, PLACEHOLDER_HEIGHT))
                     ELSE r) EXCEPT !.off = FALSE],
                   "showPlaceholder", FALSE, FALSE)
    ELSE ImageCall([r EXCEPT !.placeholderBitmap = FALSE, !.placeholder = 0, !.off = TRUE],
                   "showPlaceholder", FALSE, FALSE)

\* drawPlaceholder(col, row, count): with a bitmap or a placeholder, and a
\* context, the height of the placeholder is read, which throws when there
\* is none, a higher placeholder is made if the cell has grown, and the
\* line is drawn.
drawPlaceholder(r) ==
    IF (r.placeholderBitmap \/ r.placeholder # 0) /\ r.ctx
    THEN IF r.placeholder = 0
         THEN ImageCall(r, "drawPlaceholder", FALSE, TRUE)
         ELSE ImageCall(IF cellSizeHeight(r) >= r.placeholder
                        THEN createPlaceHolder(r, cellSizeHeight(r) + 1) ELSE r,
                        "drawPlaceholder", TRUE, FALSE)
    ELSE ImageCall(r, "drawPlaceholder", FALSE, FALSE)

\* The renderer makes at most MaxCanvases canvases and has at most
\* MaxPromises bitmap promises pending.
MaxCanvases == 3
MaxPromises == 2

\* The addon constructs its renderer.
Construct ==
    /\ ~image.constructed
    /\ \E value \in BOOLEAN :
          image' = ImageCall(constructor(image, value), "constructor", FALSE, FALSE)
    /\ UNCHANGED <<rowVars, guard, unicode, composition, viewport>>

\* The terminal is opened, for the first time or again.
Open ==
    /\ image.created < MaxCanvases
    /\ image.promises < MaxPromises
    /\ \E height \in CellHeights, fresh \in BOOLEAN :
          image' = ImageCall(terminalOpen(image, height, fresh), "open", FALSE, FALSE)
    /\ UNCHANGED <<rowVars, guard, unicode, composition, viewport>>

\* The terminal replaces its renderer.
SetRenderer ==
    /\ image.screenElement
    /\ image.created < MaxCanvases
    /\ image' = setRenderer(image)
    /\ UNCHANGED <<rowVars, guard, unicode, composition, viewport>>

DisposeRenderer ==
    /\ image.constructed
    /\ image' = disposeRenderer(image)
    /\ UNCHANGED <<rowVars, guard, unicode, composition, viewport>>

ShowPlaceholder ==
    /\ image.constructed
    /\ image.promises < MaxPromises
    /\ \E value \in BOOLEAN : image' = showPlaceholder(image, value)
    /\ UNCHANGED <<rowVars, guard, unicode, composition, viewport>>

\* The storage draws a placeholder line.
DrawPlaceholder ==
    /\ image.constructed
    /\ image.promises < MaxPromises
    /\ image' = drawPlaceholder(image)
    /\ UNCHANGED <<rowVars, guard, unicode, composition, viewport>>

\* A bitmap promise is fulfilled, with a bitmap or, where createImageBitmap
\* is missing, with undefined: the callback stores what it is given.
Resolve ==
    /\ image.promises > 0
    /\ \E bitmap \in BOOLEAN :
          image' = ImageCall([image EXCEPT !.placeholderBitmap = bitmap, !.promises = @ - 1],
                             "then", FALSE, FALSE)
    /\ UNCHANGED <<rowVars, guard, unicode, composition, viewport>>

\* ------------------------------------------------------- CompositionHelper

\* compositionPosition's fields start as null.
Null == -1

\* The textarea holds at most MaxText characters, and the browser delivers
\* at most MaxEvents events.
MaxText == 2
MaxEvents == 4

\* value.substring(start, end) as the range of positions [from, to) it
\* copies: null counts as 0, an index is brought into 0..length, and the
\* lesser index comes first.
Substring(length, start, end) ==
    LET Index(i) == IF i = Null \/ i < 0 THEN 0 ELSE IF i > length THEN length ELSE i
    IN  [from |-> IF Index(start) < Index(end) THEN Index(start) ELSE Index(end),
         to |-> IF Index(start) < Index(end) THEN Index(end) ELSE Index(start)]

\* The helper after its constructor, with an empty textarea, no timer set
\* and no call of terminal.handler made. The view's and the textarea's
\* positions on the page are not part of the state. The calls of
\* compositionstart are counted (starts).
CompositionHelper ==
    [isComposing |-> FALSE, isSendingComposition |-> FALSE,
     compositionPosition |-> [start |-> Null, end |-> Null],
     active |-> FALSE, value |-> 0, timers |-> <<>>, handler |-> <<>>,
     events |-> 0, starts |-> 0,
     last |-> [op |-> "", keyCode |-> 0, returned |-> TRUE,
               isComposing |-> FALSE, isSendingComposition |-> FALSE,
               compositionPosition |-> [start |-> Null, end |-> Null], calls |-> 0,
               timer |-> "", startsSince |-> 0]]

\* What is kept of the last event or timer: its name, the key, what the
\* handler returned, and the helper's fields and the number of calls of
\* terminal.handler when it came; for a timer, which one ran and how often
\* compositionstart was called since it was set.
Event(c, op, keyCode, returned) ==
    [op |-> op, keyCode |-> keyCode, returned |-> returned,
     isComposing |-> c.isComposing, isSendingComposition |-> c.isSendingComposition,
     compositionPosition |-> c.compositionPosition, calls |-> Len(c.handler),
     timer |-> "", startsSince |-> 0]

\* A call of terminal.handler with the characters [from, to) of the textarea.
Forward(c, range, by) ==
    [c EXCEPT !.handler = Append(@, [from |-> range.from, to |-> range.to, by |-> by])]

\* (mutant) the input is always sent by a timer.
finalizeCompositionDelayed(c, waitForPropogation) ==
    LET c1 == [c EXCEPT !.active = FALSE, !.isComposing = FALSE]
    IN  [c1 EXCEPT !.isSendingComposition = TRUE,
                   !.timers = Append(@, [run |-> "send",
                                         start |-> c.compositionPosition.start,
                                         end |-> c.compositionPosition.end])]

\* finalizeComposition(waitForPropogation).
finalizeComposition(c, waitForPropogation) ==
    LET c1 == [c EXCEPT !.active = FALSE, !.isComposing = FALSE]
    IN  IF ~waitForPropogation
        THEN Forward([c1 EXCEPT !.isSendingComposition = FALSE],
                     Substring(c.value, c.compositionPosition.start,
                               c.compositionPosition.end),
                     "keydown")
        ELSE [c1 EXCEPT !.isSendingComposition = TRUE,
                        !.timers = Append(@, [run |-> "send",
                                              start |-> c.compositionPosition.start,
                                              end |-> c.compositionPosition.end])]

\* keydown(event): the helper afterwards and the value returned.
keydown(c, keyCode) ==
    IF (c.isComposing \/ c.isSendingComposition) /\ keyCode = 229
    THEN [c |-> c, returned |-> FALSE]
    ELSE IF (c.isComposing \/ c.isSendingComposition) /\ keyCode \in {16, 17, 18}
    THEN [c |-> c, returned |-> FALSE]
    ELSE LET c1 == IF c.isComposing \/ c.isSendingComposition
                   THEN finalizeComposition(c, FALSE) ELSE c
         IN  IF keyCode = 229
             \* handleAnyTextareaChanges(): the timer keeps the old value
             THEN [c |-> [c1 EXCEPT !.timers = Append(@, [run |-> "changes",
                                                          start |-> c1.value, end |-> Null,
                                                          starts |-> c1.starts])],
                   returned |-> FALSE]
             ELSE [c |-> c1, returned |-> TRUE]

\* The browser puts a character into the textarea.
TextareaInput ==
    /\ composition.value < MaxText
    /\ composition' = [composition EXCEPT !.value = @ + 1,
                                          !.last = Event(composition, "input", 0, TRUE)]
    /\ UNCHANGED <<rowVars, guard, unicode, viewport, image>>

\* compositionstart().
CompositionStart ==
    /\ composition.events < MaxEvents
    /\ composition' =
          [composition EXCEPT !.isComposing = TRUE,
                              !.compositionPosition.start = composition.value,
                              !.active = TRUE,
                              !.events = @ + 1,
                              !.starts = @ + 1,
                              !.last = Event(composition, "compositionstart", 0, TRUE)]
    /\ UNCHANGED <<rowVars, guard, unicode, viewport, image>>

\* compositionupdate(event): a timer will record the end of the composition.
CompositionUpdate ==
    /\ composition.events < MaxEvents
    /\ composition' =
          [composition EXCEPT !.timers = Append(@, [run |-> "end", start |-> Null,
                                                    end |-> Null]),
                              !.events = @ + 1,
                              !.last = Event(composition, "compositionupdate", 0, TRUE)]
    /\ UNCHANGED <<rowVars, guard, unicode, viewport, image>>

\* compositionend().
CompositionEnd ==
    /\ composition.events < MaxEvents
    /\ composition' =
          [finalizeComposition(composition, TRUE) EXCEPT
              !.events = @ + 1,
              !.last = Event(composition, "compositionend", 0, TRUE)]
    /\ UNCHANGED <<rowVars, guard, unicode, viewport, image>>

\* keydown(event): the composition character, a modifier, enter or a letter.
KeyDown ==
    /\ composition.events < MaxEvents
    /\ \E keyCode \in {229, 16, 17, 18, 13, 65} :
          LET k == keydown(composition, keyCode)
          IN  composition' =
                 [k.c EXCEPT !.events = @ + 1,
                             !.last = Event(composition, "keydown", keyCode, k.returned)]
    /\ UNCHANGED <<rowVars, guard, unicode, viewport, image>>

\* The oldest of the timers set with a delay of 0 runs.
Timer ==
    /\ composition.timers # <<>>
    /\ LET t == Head(composition.timers)
           c == [composition EXCEPT
                    !.timers = Tail(@),
                    !.last = [Event(composition, "timer", 0, TRUE) EXCEPT
                                 !.timer = t.run,
                                 !.startsSince = IF t.run = "changes"
                                                 THEN composition.starts - t.starts ELSE 0]]
       IN  composition' =
              CASE t.run = "end" -> [c EXCEPT !.compositionPosition.end = c.value]
                [] t.run = "send" ->
                     IF c.isSendingComposition
                     THEN Forward([c EXCEPT !.isSendingComposition = FALSE],
                                  IF c.isComposing
                                  THEN Substring(c.value, t.start, t.end)
                                  ELSE Substring(c.value, t.start, c.value),
                                  "timer")
                     ELSE c
                [] OTHER ->
                     \* newValue.replace(oldValue, ''): the textarea only grows
                     IF ~c.isComposing /\ c.value > t.start
                     THEN Forward(c, [from |-> t.start, to |-> c.value], "changes")
                     ELSE c
    /\ UNCHANGED <<rowVars, guard, unicode, viewport, image>>

\* ------------------------------------------------------ IEEE 754 doubles

\* The bits of the mantissa of a double.
MantissaBits == 53

\* Natural numbers of any size are bits, the lowest first; their sums and
\* differences are taken on limbs of LimbBits bits.
LimbBits == 15

\* A finite double is (neg ? -1 : 1) * m * 2^e: m is a natural number below
\* 2^MantissaBits in bits with a 1 at both ends, and zero is no bits with
\* exponent 0 and keeps its sign. The amounts of a wheel event are a few
\* lines or a fraction of a line, far from the ends of the exponent range:
\* infinities and subnormal numbers are not among them.
StripTop(bits) ==
    IF \A i \in 1..Len(bits) : bits[i] = 0 THEN <<>>
    ELSE SubSeq(bits, 1, CHOOSE i \in 1..Len(bits) :
                            bits[i] = 1 /\ \A j \in (i + 1)..Len(bits) : bits[j] = 0)

LowZeros(bits) ==
    IF \A i \in 1..Len(bits) : bits[i] = 0 THEN 0
    ELSE (CHOOSE i \in 1..Len(bits) : bits[i] = 1 /\ \A j \in 1..(i - 1) : bits[j] = 0) - 1

Zeros(k) == [i \in 1..k |-> 0]

Double(neg, bits, e) ==
    LET m == StripTop(bits)
        z == LowZeros(m)
    IN  IF m = <<>> THEN [neg |-> neg, m |-> <<>>, e |-> 0]
        ELSE [neg |-> neg, m |-> SubSeq(m, z + 1, Len(m)), e |-> e + z]

PositiveZero == Double(FALSE, <<>>, 0)

\* A natural number (below 2^30) in bits and back.
BitLength(n) == IF n = 0 THEN 0 ELSE CHOOSE k \in 1..30 : n \div (2 ^ (k - 1)) = 1
NatBits(n) == [i \in 1..BitLength(n) |-> (n \div (2 ^ (i - 1))) % 2]

RECURSIVE BitsNat(_)
BitsNat(bits) == IF bits = <<>> THEN 0 ELSE Head(bits) + 2 * BitsNat(Tail(bits))

\* The double of a whole number.
FromInteger(n) == Double(n < 0, NatBits(IF n < 0 THEN 0 - n ELSE n), 0)

\* Bits in limbs and back.
ToLimbs(bits) ==
    [j \in 1..((Len(bits) + LimbBits - 1) \div LimbBits) |->
        BitsNat(SubSeq(bits, LimbBits * (j - 1) + 1, Min(LimbBits * j, Len(bits))))]
FromLimbs(limbs) ==
    StripTop([i \in 1..(LimbBits * Len(limbs)) |->
                 (limbs[((i - 1) \div LimbBits) + 1] \div (2 ^ ((i - 1) % LimbBits))) % 2])

\* The sum and, for a >= b, the difference of two natural numbers in limbs.
RECURSIVE LimbsAdd(_, _, _)
LimbsAdd(a, b, carry) ==
    IF a = <<>> /\ b = <<>> THEN (IF carry = 1 THEN <<1>> ELSE <<>>)
    ELSE LET sum == (IF a = <<>> THEN 0 ELSE Head(a)) + (IF b = <<>> THEN 0 ELSE Head(b)) + carry
         IN  <<sum % (2 ^ LimbBits)>>
                \o LimbsAdd(IF a = <<>> THEN a ELSE Tail(a),
                            IF b = <<>> THEN b ELSE Tail(b), sum \div (2 ^ LimbBits))

RECURSIVE LimbsSub(_, _, _)
LimbsSub(a, b, borrow) ==
    IF a = <<>> THEN <<>>
    ELSE LET diff == (2 ^ LimbBits) + Head(a) - (IF b = <<>> THEN 0 ELSE Head(b)) - borrow
         IN  <<diff % (2 ^ LimbBits)>>
                \o LimbsSub(Tail(a), IF b = <<>> THEN b ELSE Tail(b),
                            IF diff < 2 ^ LimbBits THEN 1 ELSE 0)

BitsAdd(a, b) == FromLimbs(LimbsAdd(ToLimbs(a), ToLimbs(b), 0))
BitsSub(a, b) == FromLimbs(LimbsSub(ToLimbs(a), ToLimbs(b), 0))

\* a < b for natural numbers in bits with a 1 at the top.
BitsLess(a, b) ==
    \/ Len(a) < Len(b)
    \/ /\ Len(a) = Len(b)
       /\ \E i \in 1..Len(a) : a[i] < b[i] /\ \A j \in (i + 1)..Len(a) : a[j] = b[j]

\* The double nearest to bits * 2^e, the one with an even mantissa of two
\* that are equally near (the rounding of every operation on doubles).
RoundToDouble(neg, bits, e) ==
    LET b == StripTop(bits)
        k == Len(b) - MantissaBits
    IN  IF k <= 0 THEN Double(neg, b, e)
        ELSE LET high == SubSeq(b, k + 1, Len(b))
                 up == b[k] = 1 /\ (high[1] = 1 \/ \E i \in 1..(k - 1) : b[i] = 1)
             IN  Double(neg, IF up THEN BitsAdd(high, <<1>>) ELSE high, e + k)

\* left + right on doubles.
DoubleAdd(left, right) ==
    IF left.m = <<>> /\ right.m = <<>> THEN Double(left.neg /\ right.neg, <<>>, 0)
    ELSE IF left.m = <<>> THEN right
    ELSE IF right.m = <<>> THEN left
    ELSE LET e == Min(left.e, right.e)
             a == Zeros(left.e - e) \o left.m
             b == Zeros(right.e - e) \o right.m
         IN  IF left.neg = right.neg THEN RoundToDouble(left.neg, BitsAdd(a, b), e)
             ELSE IF a = b THEN PositiveZero
             ELSE IF BitsLess(a, b) THEN RoundToDouble(right.neg, BitsSub(b, a), e)
             ELSE RoundToDouble(left.neg, BitsSub(a, b), e)

\* Limbs without zeros at the top, a < b on such limbs, and a * g + carry
\* for a limb g.
LimbsStrip(a) ==
    IF \A i \in 1..Len(a) : a[i] = 0 THEN <<>>
    ELSE SubSeq(a, 1, CHOOSE i \in 1..Len(a) : a[i] # 0 /\ \A j \in (i + 1)..Len(a) : a[j] = 0)

LimbsLess(a, b) ==
    \/ Len(a) < Len(b)
    \/ /\ Len(a) = Len(b)
       /\ \E i \in 1..Len(a) : a[i] < b[i] /\ \A j \in (i + 1)..Len(a) : a[j] = b[j]

RECURSIVE LimbsTimes(_, _, _)
LimbsTimes(a, g, carry) ==
    IF a = <<>> THEN (IF carry = 0 THEN <<>> ELSE <<carry>>)
    ELSE LET product == Head(a) * g + carry
         IN  <<product % (2 ^ LimbBits)>> \o LimbsTimes(Tail(a), g, product \div (2 ^ LimbBits))

\* The limb r \div d for r < d * 2^LimbBits, the top limb of d being at
\* least 2^(LimbBits - 1): the quotient of the top limbs is the limb or at
\* most 2 above it.
Fits(r, d, g) == ~LimbsLess(r, LimbsStrip(LimbsTimes(d, g, 0)))
QuotientLimb(r, d) ==
    LET top == IF Len(r) > Len(d) THEN r[Len(d) + 1] ELSE 0
        next == IF Len(r) >= Len(d) THEN r[Len(d)] ELSE 0
        guess == Min((top * (2 ^ LimbBits) + next) \div d[Len(d)], (2 ^ LimbBits) - 1)
    IN  IF guess = 0 \/ Fits(r, d, guess) THEN guess
        ELSE IF Fits(r, d, guess - 1) THEN guess - 1
        ELSE guess - 2

\* The long division of the limbs num by d, from the top limb down: the
\* quotient and the rest.
RECURSIVE LimbsDivide(_, _, _, _)
LimbsDivideBy(num, d, r, g, quotient) ==
    LimbsDivide(SubSeq(num, 1, Len(num) - 1), d,
                LimbsStrip(LimbsSub(r, LimbsTimes(d, g, 0), 0)), <<g>> \o quotient)
LimbsDivideFrom(num, d, r, quotient) == LimbsDivideBy(num, d, r, QuotientLimb(r, d), quotient)
LimbsDivide(num, d, rest, quotient) ==
    IF num = <<>> THEN [quotient |-> LimbsStrip(quotient), rest |-> rest]
    ELSE LimbsDivideFrom(num, d, LimbsStrip(<<num[Len(num)]>> \o rest), quotient)

\* left / right on doubles, right not zero: the quotient of the mantissas
\* to two bits more than the mantissa holds and, when the division leaves a
\* rest, a 1 below them that stands for the rest, rounded. A power of two
\* divides exactly.
DoubleDivide(left, right) ==
    IF left.m = <<>> THEN Double(left.neg # right.neg, <<>>, 0)
    ELSE IF right.m = <<1>> THEN Double(left.neg # right.neg, left.m, left.e - right.e)
    ELSE LET pad == (LimbBits - (Len(right.m) % LimbBits)) % LimbBits
             shift == MantissaBits + 2 + Len(right.m) - Len(left.m)
             division == LimbsDivide(ToLimbs(Zeros(shift + pad) \o left.m),
                                     ToLimbs(Zeros(pad) \o right.m), <<>>, <<>>)
             bits == FromLimbs(division.quotient)
         IN  IF division.rest = <<>>
             THEN RoundToDouble(left.neg # right.neg, bits, left.e - right.e - shift)
             ELSE RoundToDouble(left.neg # right.neg, <<1>> \o bits,
                                left.e - right.e - shift - 1)

\* Math.floor(Math.abs(d)) of a double, a whole number.
FloorAbs(d) ==
    IF d.e >= 0 THEN BitsNat(Zeros(d.e) \o d.m)
    ELSE IF 0 - d.e >= Len(d.m) THEN 0
    ELSE BitsNat(SubSeq(d.m, 1 - d.e, Len(d.m)))

\* 100 / 3 on doubles.
HundredThirds == DoubleDivide(FromInteger(100), FromInteger(3))

\* Math.round(d) of a double, a whole number: a half goes up.
MathRound(d) ==
    LET half == d.e < 0 /\ 0 - d.e <= Len(d.m) /\ d.m[0 - d.e] = 1
        below == \E i \in 1..Min(0 - d.e - 1, Len(d.m)) : d.m[i] = 1
    IN  IF d.neg THEN 0 - (FloorAbs(d) + (IF half /\ below THEN 1 ELSE 0))
        ELSE FloorAbs(d) + (IF half THEN 1 ELSE 0)

\* left === right on doubles: the two zeros are equal.
DoubleEqual(left, right) ==
    left.m = right.m /\ left.e = right.e /\ (left.m = <<>> \/ right.neg = left.neg)

\* ---------------------------------------------------------------- Viewport

\* The terminal shows Rows rows of RowHeightPx pixels each and the buffer
\* holds at most MaxYdisp rows more.
Rows == 1
RowHeightPx == 2
MaxYdisp == 2

\* The viewport after its constructor, its element (scrollTop, whether it is
\* shown, the height of the scroll area, the scroll event the browser has
\* yet to deliver and what caused it), the buffer, and what is kept of the
\* last scroll event delivered. The char size service is ready and the
\* canvas is as high as the element. cellHeight is the height of a
\* row that the render service reports (scaledCellHeight divided by
\* devicePixelRatio), in whole pixels. _wheelPartialScroll is a double (the
\* lines carried over) or NaN. Of the wheel events in pixel mode
\* are kept their number, the sum of their deltaY, the sum of the lines
\* getLinesScrolled returned, and of the last call of getLinesScrolled what
\* it returned and whether that is a whole number.
\* scrollTop and _lastScrollTop are whole pixels plus scrollTopHalf and
\* lastScrollTopHalf half pixels (0 or 1), which a wheel event on a display
\* of pixel ratio 2 brings about. isWindows is the constant of
\* common/Platform.
\* refreshAnimationFrame is whether the
\* field holds the handle of a frame (not null); frames counts the callbacks
\* requestAnimationFrame was given that the browser has yet to run.
Viewport ==
    [currentRowHeight |-> 0, lastRecordedBufferLength |-> 0,
     lastRecordedViewportHeight |-> 0, lastRecordedBufferHeight |-> 0,
     lastScrollTop |-> 0, lastScrollTopHalf |-> 0,
     refreshAnimationFrame |-> FALSE, frames |-> 0,
     ignoreNextScrollEvent |-> FALSE, isWindows |-> FALSE,
     scrollTop |-> 0, scrollTopHalf |-> 0, offsetParent |-> TRUE, scrollAreaHeight |-> 0, pending |-> {},
     length |-> Rows, ydisp |-> 0,
     last |-> [causes |-> {}, offsetParent |-> TRUE, called |-> FALSE, amount |-> 0,
               notFinite |-> "", scrollTop |-> 0, scrollTopHalf |-> 0, ydisp |-> 0],
     lastTouchY |-> 0,
     cellHeight |-> RowHeightPx,
     wheelPartialScroll |-> [nan |-> FALSE, value |-> PositiveZero],
     wheel |-> [events |-> 0, deltaY |-> 0, lines |-> 0, returned |-> 0, whole |-> TRUE]]

\* The greatest scrollTop the element takes.
MaxScrollTop(v) ==
    IF v.scrollAreaHeight > (Rows * v.cellHeight) THEN v.scrollAreaHeight - (Rows * v.cellHeight) ELSE 0

\* The element's scrollTop and _lastScrollTop in half pixels.
ScrollTopHalves(v) == 2 * v.scrollTop + v.scrollTopHalf
LastScrollTopHalves(v) == 2 * v.lastScrollTop + v.lastScrollTopHalf

\* An assignment to the element's scrollTop, of a value in half pixels: an
\* element that is not shown keeps 0; the value is brought into the range
\* of the element, and a scroll event is due when the value changes.
SetScrollTopHalves(v, value, cause) ==
    LET new == IF ~v.offsetParent THEN 0
               ELSE IF value > 2 * MaxScrollTop(v) THEN 2 * MaxScrollTop(v)
               ELSE IF value < 0 THEN 0 ELSE value
    IN  IF new = ScrollTopHalves(v) THEN v
        ELSE [v EXCEPT !.scrollTop = new \div 2, !.scrollTopHalf = new % 2,
                       !.pending = @ \cup {cause}]

\* The same of a value in whole pixels.
SetScrollTop(v, value, cause) == SetScrollTopHalves(v, 2 * value, cause)

\* _onScroll(ev): the viewport afterwards, whether _scrollLines was called
\* and with what amount. With a row height of 0 the quotient is not a
\* number: notFinite is then "NaN" (0 / 0) or "Infinity", and so is the
\* amount _scrollLines is given, whatever the field amount says.
onScroll(v) ==
    LET v1 == [v EXCEPT !.lastScrollTop = v.scrollTop, !.lastScrollTopHalf = v.scrollTopHalf]
        \* Math.round of the quotient of a half pixels by b pixels, neither
        \* of them negative
        round(a, b) == (a + b) \div (2 * b)
        notFinite == IF v1.currentRowHeight # 0 THEN ""
                     ELSE IF LastScrollTopHalves(v1) = 0 THEN "NaN" ELSE "Infinity"
        diff == IF notFinite # "" THEN 0
                ELSE round(LastScrollTopHalves(v1), v1.currentRowHeight) - v1.ydisp
    IN  IF ~v.offsetParent
        THEN [v |-> v1, called |-> FALSE, amount |-> 0, notFinite |-> ""]
        ELSE IF v.ignoreNextScrollEvent
        THEN [v |-> [v1 EXCEPT !.ignoreNextScrollEvent = FALSE], called |-> FALSE,
              amount |-> 0, notFinite |-> ""]
        ELSE [v |-> v1, called |-> TRUE, amount |-> diff, notFinite |-> notFinite]

\* _bubbleScroll(ev, amount): false while the element can still scroll in
\* the direction of the amount.
bubbleScroll(v, amount) ==
    ~ \/ (amount < 0 /\ ScrollTopHalves(v) # 0)
      \/ (amount > 0 /\ ScrollTopHalves(v) + 2 * v.lastRecordedViewportHeight
                            < 2 * v.lastRecordedBufferHeight)

\* The wheel events delivered are at most MaxWheelEvents, with a deltaY of
\* at most MaxDeltaY pixels, lines or pages up or down.
MaxWheelEvents == 4
MaxDeltaY == 3

\* The pixel ratios of the displays, the deltaY of one notch of a mouse
\* wheel on Windows set to scroll three lines, and that of two notches and
\* a half, whose quotient by 100 / 3 falls below 7.5 on doubles.
PixelRatios == {1, 2}
NotchDeltaY == 100
HalfNotchDeltaY == 250

\* A wheel event: wheelDeltaY is a number or undefined.
WheelEvent(deltaY, deltaMode, defined, wheelDeltaY) ==
    [deltaY |-> deltaY, deltaMode |-> deltaMode,
     wheelDeltaY |-> [defined |-> defined, value |-> wheelDeltaY]]

\* Math.round(amount / (100 / 3)) for the amount deltaY / devicePixelRatio,
\* the quotients taken on doubles: 250 at the ratio 1 gives
\* 7.499999999999999 and 7 rows.
NotchRows(deltaY, devicePixelRatio) ==
    MathRound(DoubleDivide(DoubleDivide(FromInteger(deltaY), FromInteger(devicePixelRatio)),
                           HundredThirds))

\* The deltaY of the wheel events that OnWheel delivers, and NotchRows of
\* them, computed once.
WheelDeltaY == ((0 - MaxDeltaY)..MaxDeltaY) \cup {0 - NotchDeltaY, NotchDeltaY, HalfNotchDeltaY}
WheelNotchRows ==
    [deltaY \in WheelDeltaY, devicePixelRatio \in PixelRatios |->
        NotchRows(deltaY, devicePixelRatio)]

\* _getPixelsScrolled(ev) in half pixels, on a display of the pixel ratio 1
\* or 2. On Windows a pixel amount is divided by the ratio, and when
\* wheelDeltaY is a multiple of 120 it becomes the row height times
\* Math.round(amount / (100 / 3)).
getPixelsScrolled(v, ev, devicePixelRatio) ==
    IF ev.deltaY = 0 THEN 0
    ELSE IF ev.deltaMode = "line" THEN 2 * ev.deltaY * v.currentRowHeight
    ELSE IF ev.deltaMode = "page" THEN 2 * ev.deltaY * v.currentRowHeight * Rows
    ELSE IF ~v.isWindows THEN 2 * ev.deltaY
    ELSE IF ev.wheelDeltaY.defined /\ (IF ev.wheelDeltaY.value < 0 THEN 0 - ev.wheelDeltaY.value
                                       ELSE ev.wheelDeltaY.value) % 120 = 0
    THEN 2 * v.currentRowHeight
            * (IF <<ev.deltaY, devicePixelRatio>> \in DOMAIN WheelNotchRows
               THEN WheelNotchRows[ev.deltaY, devicePixelRatio]
               ELSE NotchRows(ev.deltaY, devicePixelRatio))
    ELSE (2 * ev.deltaY) \div devicePixelRatio

\* onWheel(ev): the viewport afterwards and the value returned.
onWheel(v, ev, devicePixelRatio) ==
    LET amount == getPixelsScrolled(v, ev, devicePixelRatio)
        v1 == SetScrollTopHalves(v, ScrollTopHalves(v) + amount, "user")
    IN  IF amount = 0 THEN [v |-> v, returned |-> FALSE]
        ELSE [v |-> v1, returned |-> bubbleScroll(v1, amount)]

\* onTouchStart(ev).
onTouchStart(v, pageY) == [v EXCEPT !.lastTouchY = pageY]

\* onTouchMove(ev): the viewport afterwards and the value returned.
onTouchMove(v, pageY) ==
    LET deltaY == v.lastTouchY - pageY
        v0 == [v EXCEPT !.lastTouchY = pageY]
        v1 == SetScrollTopHalves(v0, ScrollTopHalves(v0) + 2 * deltaY, "user")
    IN  IF deltaY = 0 THEN [v |-> v0, returned |-> FALSE]
        ELSE [v |-> v1, returned |-> bubbleScroll(v1, deltaY)]

\* _innerRefresh().
innerRefresh(v) ==
    LET newBufferHeight == v.cellHeight * v.lastRecordedBufferLength
        v1 == [v EXCEPT !.currentRowHeight = v.cellHeight,
                        !.lastRecordedViewportHeight = (Rows * v.cellHeight),
                        !.lastRecordedBufferHeight = newBufferHeight,
                        !.scrollAreaHeight = newBufferHeight]
        \* a scroll area that shrinks brings scrollTop into the new range
        v2 == SetScrollTopHalves(v1, ScrollTopHalves(v1), "resize")
        scrollTop == v2.ydisp * v2.currentRowHeight
        v3 == IF ScrollTopHalves(v2) # 2 * scrollTop
              THEN SetScrollTop([v2 EXCEPT !.ignoreNextScrollEvent = TRUE], scrollTop,
                                "viewport")
              ELSE v2
    IN  [v3 EXCEPT !.refreshAnimationFrame = FALSE]

\* (mutant) a frame is requested whether or not one is pending.
refreshAlways(v) == [v EXCEPT !.refreshAnimationFrame = TRUE, !.frames = @ + 1]

\* _refresh(): a frame is requested unless the field holds one.
refresh(v) ==
    IF ~v.refreshAnimationFrame
    THEN [v EXCEPT !.refreshAnimationFrame = TRUE, !.frames = @ + 1]
    ELSE v

\* syncScrollArea(): a refresh is asked for when one of the five tests finds
\* a change.
syncScrollArea(v) ==
    IF v.lastRecordedBufferLength # v.length
    THEN refresh([v EXCEPT !.lastRecordedBufferLength = v.length])
    ELSE IF \/ v.lastRecordedViewportHeight # (Rows * v.cellHeight)
            \/ LastScrollTopHalves(v) # 2 * v.ydisp * v.currentRowHeight
            \/ LastScrollTopHalves(v) # ScrollTopHalves(v)
            \/ v.cellHeight # v.currentRowHeight
    THEN refresh(v)
    ELSE v

\* Math.floor(Math.abs(p)) * (p > 0 ? 1 : -1) and p % 1 for a double p: the
\* whole lines towards zero, and the rest, which has the sign of p and is
\* exact.
WholeLines(p) == FloorAbs(p) * (IF ~p.neg /\ p.m # <<>> THEN 1 ELSE -1)
Remainder(p) ==
    IF p.e >= 0 THEN Double(p.neg, <<>>, 0)
    ELSE Double(p.neg, SubSeq(p.m, 1, Min(0 - p.e, Len(p.m))), p.e)

\* getLinesScrolled(ev): the viewport afterwards and the value returned,
\* which is not a whole number (an infinity or NaN) once a pixel amount was
\* divided by a row height of 0. The quotient and the sum are rounded as
\* doubles are.
getLinesScrolled(v, deltaY, deltaMode) ==
    IF deltaY = 0 THEN [v |-> v, returned |-> 0, whole |-> TRUE]
    ELSE IF deltaMode = "pixel" THEN
        IF v.wheelPartialScroll.nan \/ v.currentRowHeight = 0
        THEN [v |-> [v EXCEPT !.wheelPartialScroll = [nan |-> TRUE, value |-> PositiveZero]],
              returned |-> 0, whole |-> FALSE]
        ELSE LET amount == DoubleDivide(FromInteger(deltaY), FromInteger(v.currentRowHeight))
                 p == DoubleAdd(v.wheelPartialScroll.value, amount)
             IN  [v |-> [v EXCEPT !.wheelPartialScroll.value = Remainder(p)],
                  returned |-> WholeLines(p), whole |-> TRUE]
    ELSE IF deltaMode = "page" THEN [v |-> v, returned |-> deltaY * Rows, whole |-> TRUE]
    ELSE [v |-> v, returned |-> deltaY, whole |-> TRUE]

\* The consumer of the viewport asks for the lines of a wheel event.
Wheel ==
    /\ viewport.wheel.events < MaxWheelEvents
    /\ \E deltaY \in (0 - MaxDeltaY)..MaxDeltaY, deltaMode \in {"pixel", "line", "page"} :
          LET r == getLinesScrolled(viewport, deltaY, deltaMode)
          IN  viewport' =
                 [r.v EXCEPT !.wheel =
                     [events |-> @.events + 1,
                      deltaY |-> IF deltaMode = "pixel" THEN @.deltaY + deltaY ELSE @.deltaY,
                      lines |-> IF deltaMode = "pixel" /\ r.whole THEN @.lines + r.returned
                                ELSE @.lines,
                      returned |-> r.returned, whole |-> r.whole]]
    /\ UNCHANGED <<rowVars, guard, unicode, composition, image>>

\* The touches are at most MaxTouchY pixels down the page.
MaxTouchY == 1

\* The consumer hands a wheel event to onWheel: a small one of any mode, or
\* a notch of a mouse wheel, with or without a wheelDeltaY.
OnWheel ==
    /\ \E deltaY \in WheelDeltaY,
          deltaMode \in {"pixel", "line", "page"},
          wheelDeltaY \in {WheelEvent(0, "", FALSE, 0).wheelDeltaY,
                           WheelEvent(0, "", TRUE, -120).wheelDeltaY,
                           WheelEvent(0, "", TRUE, 7).wheelDeltaY},
          devicePixelRatio \in PixelRatios :
          /\ (deltaY \in {0 - NotchDeltaY, NotchDeltaY, HalfNotchDeltaY}) => deltaMode = "pixel"
          /\ viewport' = onWheel(viewport,
                                 WheelEvent(deltaY, deltaMode, wheelDeltaY.defined,
                                            wheelDeltaY.value),
                                 devicePixelRatio).v
    /\ UNCHANGED <<rowVars, guard, unicode, composition, image>>

\* A finger touches the viewport, or moves on it.
OnTouchStart ==
    /\ \E pageY \in 0..MaxTouchY : viewport' = onTouchStart(viewport, pageY)
    /\ UNCHANGED <<rowVars, guard, unicode, composition, image>>

OnTouchMove ==
    /\ \E pageY \in 0..MaxTouchY : viewport' = onTouchMove(viewport, pageY).v
    /\ UNCHANGED <<rowVars, guard, unicode, composition, image>>

\* The terminal calls syncScrollArea.
SyncScrollArea ==
    /\ viewport' = syncScrollArea(viewport)
    /\ UNCHANGED <<rowVars, guard, unicode, composition, image>>

\* The browser runs a callback given to requestAnimationFrame.
AnimationFrame ==
    /\ viewport.frames > 0
    /\ viewport' = [innerRefresh(viewport) EXCEPT !.frames = @ - 1]
    /\ UNCHANGED <<rowVars, guard, unicode, composition, image>>

\* The terminal's output adds a row to the buffer or moves the display.
BufferChange ==
    /\ \E length \in Rows..(Rows + MaxYdisp), ydisp \in 0..MaxYdisp :
          /\ length >= viewport.length
          /\ ydisp <= length - Rows
          /\ <<length, ydisp>> # <<viewport.length, viewport.ydisp>>
          /\ viewport' = [viewport EXCEPT !.length = length, !.ydisp = ydisp]
    /\ UNCHANGED <<rowVars, guard, unicode, composition, image>>

\* The user moves the scroll bar of the element.
UserScroll ==
    /\ viewport.offsetParent
    /\ \E value \in 0..MaxScrollTop(viewport) :
          /\ 2 * value # ScrollTopHalves(viewport)
          /\ viewport' = SetScrollTop(viewport, value, "user")
    /\ UNCHANGED <<rowVars, guard, unicode, composition, image>>

\* The element is hidden, and reads a scrollTop of 0 from then on, or it is
\* shown again.
VisibilityChange ==
    /\ viewport' = IF viewport.offsetParent
                   THEN [SetScrollTop(viewport, 0, "hide") EXCEPT !.offsetParent = FALSE]
                   ELSE [viewport EXCEPT !.offsetParent = TRUE]
    /\ UNCHANGED <<rowVars, guard, unicode, composition, image>>

\* The browser delivers the scroll event that is due; _scrollLines moves
\* the display by the amount it is given, and is taken to leave it where it
\* is when the amount is not finite.
ScrollEvent ==
    /\ viewport.pending # {}
    /\ LET r == onScroll(viewport)
           ydisp == r.v.ydisp + r.amount
       IN  viewport' =
              [r.v EXCEPT !.pending = {},
                          !.ydisp = IF ~r.called \/ r.notFinite # "" THEN @
                                    ELSE IF ydisp < 0 THEN 0
                                    ELSE IF ydisp > r.v.length - Rows THEN r.v.length - Rows
                                    ELSE ydisp,
                          !.last = [causes |-> viewport.pending,
                                    offsetParent |-> viewport.offsetParent,
                                    called |-> r.called, amount |-> r.amount,
                                    notFinite |-> r.notFinite,
                                    scrollTop |-> viewport.scrollTop,
                                    scrollTopHalf |-> viewport.scrollTopHalf,
                                    ydisp |-> viewport.ydisp]]
    /\ UNCHANGED <<rowVars, guard, unicode, composition, image>>

\* ------------------------------------------------------------- the inputs

FgDefault == FgWord("DEFAULT", 0, {})
BgDefault == BgWord("DEFAULT", 0, {})

\* A narrow cell holding one character, a blank cell, and a wide character.
Narrow(code, fg, bg) == Cell(<<code>>, 1, fg, bg, DefaultExt)
Blank(fg, bg) == Cell(<<>>, 1, fg, bg, DefaultExt)
Wide(code, fg, bg) == Cell(<<code>>, 2, fg, bg, DefaultExt)

\* The cell the input handler writes to the right of a wide character: no
\* character, width 0, the attributes of the wide character.
Continuation(cell) == Cell(<<>>, 0, cell.fg, cell.bg, cell.ext)

\* A line as the buffer holds it: a wide cell is followed by its
\* continuation, and a cell of width 0 follows a wide cell.
WellFormedLine(line) ==
    \A i \in 1..Len(line) :
        /\ line[i].width = 2 => (i < Len(line) /\ line[i + 1] = Continuation(line[i]))
        /\ line[i].width = 0 => (i > 1 /\ line[i - 1].width = 2)

\* The lines of n columns over a set of narrow and wide cells.
Lines(n, cells) ==
    {line \in [1..n -> cells \cup {Continuation(c) : c \in {d \in cells : d.width = 2}}] :
        WellFormedLine(line)}

\* A range [s, e) the character joiners may report for the line: at least two
\* columns of one attribute run, starting and ending on character boundaries
\* inside the trimmed line.
ValidRange(line, r) ==
    /\ r[1] >= 0 /\ r[2] - r[1] >= 2 /\ r[2] <= getTrimmedLength(line)
    /\ line[r[1] + 1].width # 0
    /\ (r[2] < Len(line) => line[r[2] + 1].width # 0)
    /\ \A c \in r[1]..(r[2] - 1) :
          line[c + 1].fg = line[r[1] + 1].fg /\ line[c + 1].bg = line[r[1] + 1].bg

\* The lists of at most two ranges, sorted and not overlapping.
JoinedRangeLists(line, maxRanges) ==
    LET ranges == {r \in (0..Len(line)) \X (0..Len(line)) : ValidRange(line, r)}
    IN  {<<>>}
        \cup (IF maxRanges >= 1 THEN {<<r>> : r \in ranges} ELSE {})
        \cup (IF maxRanges >= 2
              THEN {<<r[1], r[2]>> : r \in {q \in ranges \X ranges : q[1][2] <= q[2][1]}}
              ELSE {})

\* The decorations of each column when the decorations of the list, each
\* [id, from, to) on this row, are registered in the order of the list.
RECURSIVE DecorationsAtColumn(_, _)
DecorationsAtColumn(placed, col) ==
    IF placed = <<>> THEN <<>>
    ELSE (IF Head(placed).from <= col /\ col < Head(placed).to
          THEN <<Head(placed).id>> ELSE <<>>)
         \o DecorationsAtColumn(Tail(placed), col)
DecorationLayout(n, placed) == [col \in 0..(n - 1) |-> DecorationsAtColumn(placed, col)]
Placed(id, from, to) == [id |-> id, from |-> from, to |-> to]

\* The options and service states of a default terminal.
DefaultOptions ==
    [isFocused |-> TRUE, selectionForeground |-> NoColor, minimumContrastRatio |-> 1,
     drawBoldTextInBrightColors |-> TRUE, isCursorHidden |-> FALSE,
     isCursorInitialized |-> TRUE, cursorBlink |-> FALSE, cursorStyle |-> "block",
     cursorInactiveStyle |-> "outline"]

\* The row createRow is called for.
TheRow == 1

\* Arguments of createRow: not the cursor row, or the cursor row with the
\* cursor in a column of the line.
NoCursorArgs ==
    [row |-> TheRow, isCursorRow |-> FALSE, cursorX |-> 0, linkStart |-> -1, linkEnd |-> -1]
CursorArgs(n) ==
    {[NoCursorArgs EXCEPT !.isCursorRow = TRUE, !.cursorX = c] : c \in 0..(n - 1)}

\* The row factory after construction, with the inputs drawn from the given
\* sets.
InitRow(lineSet, argSet, maxRanges, placedSet, optSet, selSet) ==
    /\ lineData \in lineSet
    /\ args \in {a \in argSet : a.cursorX < Len(lineData)}
    /\ joinedSrc \in JoinedRangeLists(lineData, maxRanges)
    /\ decoAt \in {DecorationLayout(Len(lineData), pl) : pl \in placedSet}
    /\ opts \in optSet
    /\ pendingSel \in {[pending |-> s.set, value |-> s] : s \in selSet}
    /\ sel = NoSelection
    /\ pc = "idle"
    /\ x = 0
    /\ loc = InitialLocals(<<>>, NoSelection, NoCursorArgs, <<>>)
    /\ charElements = <<>>
    /\ backgroundElements = <<>>
    /\ caches = [normal |-> {}, half |-> {}]
    /\ result = <<>>
    /\ hist = <<>>
    /\ earlier = <<>>

\* The state after construction, with the inputs drawn from the given sets.
InitWith(lineSet, argSet, maxRanges, placedSet, optSet, selSet) ==
    /\ InitRow(lineSet, argSet, maxRanges, placedSet, optSet, selSet)
    /\ guard = <<>>
    /\ unicode = UnicodeProvider
    /\ composition = CompositionHelper
    /\ viewport = Viewport
    /\ image = ImageRenderer

\* Selections around the row: none; one that holds the row between its end
\* rows; one on the row alone, columns [1, 3); one on another row.
SelectionAll == Selection(<<2, TheRow - 1>>, <<1, TheRow + 1>>, FALSE)
SelectionPart == Selection(<<1, TheRow>>, <<3, TheRow>>, FALSE)
SelectionElsewhere == Selection(<<0, TheRow + 1>>, <<2, TheRow + 2>>, FALSE)

\* The rows of the buffer a selection may start and end on are 0..MaxRow.
MaxRow == 2

\* Every selection with its two ends on the grid, in either mode.
GridSelections(n) ==
    {Selection(<<sc, sr>>, <<ec, er>>, mode) :
        sc \in 0..n, sr \in 0..MaxRow, ec \in 0..n, er \in 0..MaxRow, mode \in BOOLEAN}

\* ---- the geometry family: widths, blanks, backgrounds, joined ranges,
\* ---- the cursor and the selection
GeometryCells ==
    {Narrow(97, FgDefault, BgDefault), Blank(FgDefault, BgDefault),
     Narrow(97, FgDefault, BgWord("P16", 2, {})),
     Wide(20013, FgDefault, BgDefault),
     Wide(20013, FgDefault, BgWord("P16", 2, {}))}

Init ==
    InitWith(Lines(Cols, GeometryCells),
             {NoCursorArgs} \cup CursorArgs(Cols),
             2,
             {<<>>, <<Placed("dBg", 1, 2)>>},
             {DefaultOptions},
             {NoSelection, SelectionAll, SelectionPart, SelectionElsewhere})

Spec == Init /\ [][Next]_vars

\* ---- the joined family: two characters, an invisible one and a wide one,
\* ---- under up to two joined ranges, the cursor and a selection
JoinedCells ==
    {Narrow(97, FgDefault, BgDefault), Narrow(98, FgDefault, BgDefault),
     Narrow(97, FgWord("DEFAULT", 0, {"invisible"}), BgDefault),
     Wide(20013, FgDefault, BgDefault)}

InitJoined ==
    InitWith(Lines(Cols, JoinedCells),
             {NoCursorArgs} \cup CursorArgs(Cols),
             2,
             {<<>>, <<Placed("dBg", 2, 3)>>},
             {DefaultOptions},
             {NoSelection, SelectionPart})

SpecJoined == InitJoined /\ [][Next]_vars

\* ---- the uniform family: every cell of a line has the same attributes
\* ---- (default ones, or bold red on green); the characters differ
UniformCells(fg, bg) ==
    {Narrow(97, fg, bg), Narrow(119, fg, bg), Blank(fg, bg), Wide(20013, fg, bg)}

HoverArgs == [NoCursorArgs EXCEPT !.linkStart = 1, !.linkEnd = 2]

InitUniform ==
    InitWith(Lines(Cols, UniformCells(FgDefault, BgDefault))
               \cup Lines(Cols, UniformCells(FgWord("P16", 1, {"bold"}), BgWord("P16", 2, {}))),
             {NoCursorArgs, HoverArgs, [NoCursorArgs EXCEPT !.isCursorRow = TRUE, !.cursorX = 1]},
             1,
             {<<>>, <<Placed("dBg", 1, 2)>>},
             {DefaultOptions},
             {NoSelection, SelectionPart})

SpecUniform == InitUniform /\ [][Next]_vars

\* ---- the background family: two inverse cells of different foreground, a
\* ---- dim cell on a coloured background and a wide character, under
\* ---- decorations, a selection, a joined range, focused or not
BackgroundCells ==
    {Narrow(97, FgWord("P16", 1, {"inverse"}), BgDefault),
     Narrow(97, FgWord("P16", 2, {"inverse"}), BgDefault),
     Narrow(97, FgDefault, BgWord("P16", 4, {"dim"})),
     Wide(20013, FgDefault, BgDefault)}

InitBackground ==
    InitWith(Lines(Cols, BackgroundCells),
             {NoCursorArgs},
             1,
             {<<>>, <<Placed("dBg", 1, 3)>>, <<Placed("dTop", 0, 2)>>},
             {DefaultOptions, [DefaultOptions EXCEPT !.isFocused = FALSE]},
             {NoSelection, SelectionAll, SelectionPart})

SpecBackground == InitBackground /\ [][Next]_vars

\* ---- the foreground family: red and green characters, a red one on a
\* ---- coloured background and a wide one, with or without a selection
\* ---- foreground and a minimum contrast
ForegroundCells ==
    {Narrow(97, FgWord("P16", 1, {}), BgDefault),
     Narrow(97, FgWord("P16", 2, {}), BgDefault),
     Narrow(97, FgWord("P16", 1, {}), BgWord("P16", 4, {})),
     Wide(20013, FgWord("P16", 1, {}), BgDefault)}

InitForeground ==
    InitWith(Lines(Cols, ForegroundCells),
             {NoCursorArgs, [NoCursorArgs EXCEPT !.isCursorRow = TRUE, !.cursorX = 2]},
             1,
             {<<>>, <<Placed("dTop", 1, 2)>>},
             {DefaultOptions,
              [DefaultOptions EXCEPT !.selectionForeground = SelectionForegroundColor],
              [DefaultOptions EXCEPT !.selectionForeground = SelectionForegroundColor,
                                     !.minimumContrastRatio = 5]},
             {NoSelection, SelectionAll, SelectionPart})

SpecForeground == InitForeground /\ [][Next]_vars

\* ---- the selection family: a character and a wide one, and the lines
\* ---- that end in blank cells, under every selection of the grid
SelectionCells == {Narrow(97, FgDefault, BgDefault), Wide(20013, FgDefault, BgDefault)}

InitSelection ==
    InitWith(Lines(Cols, SelectionCells)
               \cup {[i \in 1..Cols |-> IF i <= k THEN Narrow(97, FgDefault, BgDefault)
                                                 ELSE Blank(FgDefault, BgDefault)] :
                        k \in 0..(Cols - 1)},
             {NoCursorArgs},
             0,
             {<<>>},
             {DefaultOptions},
             {NoSelection} \cup GridSelections(Cols))

SpecSelection == InitSelection /\ [][Next]_vars

\* ---- the contrast family: red characters on the default and on a blue
\* ---- background, a dim one, a box-drawing one and a wide one, under a
\* ---- minimum contrast ratio of 3 or none, rendered twice; a selection is
\* ---- set on the rows without cursor and decoration under the ratio of 3
ContrastCells ==
    {Narrow(97, FgWord("P16", 1, {}), BgDefault),
     Narrow(97, FgWord("P16", 1, {}), BgWord("P16", 4, {})),
     Narrow(97, FgWord("P16", 1, {}), BgWord("P16", 4, {"dim"})),
     Narrow(9472, FgWord("P16", 1, {}), BgWord("P16", 4, {})),
     Wide(20013, FgWord("P16", 1, {}), BgDefault)}

InitContrast ==
    /\ InitWith(Lines(Cols, ContrastCells),
                {NoCursorArgs, [NoCursorArgs EXCEPT !.isCursorRow = TRUE, !.cursorX = 2]},
                1,
                {<<>>, <<Placed("dFg", 1, 2)>>},
                {DefaultOptions, [DefaultOptions EXCEPT !.minimumContrastRatio = 3]},
                {NoSelection, SelectionPart})
    /\ pendingSel.pending =>
          /\ opts.minimumContrastRatio = 3
          /\ ~args.isCursorRow
          /\ \A c \in DOMAIN decoAt : decoAt[c] = <<>>

SpecContrast == InitContrast /\ [][NextAgain]_vars

\* ------------------------------------------------- reading the output back

\* The column a background span starts at and the cells it spans.
BgStart(e) == e.left \div CellWidthPx
BgSpan(e) == e.width \div CellWidthPx

\* The iterations that handled a cell (not skipped), in order.
Handled == SelectSeq(hist, LAMBDA h : ~h.skipped)

\* The column at which the i-th character span was opened.
CharStart(i) == (CHOOSE h \in {hist[k] : k \in 1..Len(hist)} :
                    ~h.skipped /\ ~h.mergedChars /\ h.charIndex = i).x

\* The sum of the spans of the background spans.
RECURSIVE SumSpans(_)
SumSpans(bgs) == IF bgs = <<>> THEN 0 ELSE BgSpan(Head(bgs)) + SumSpans(Tail(bgs))

\* The joined ranges of the input reach no further than the iterated length.
RangesWithinLength ==
    \A i \in 1..Len(joinedSrc) : joinedSrc[i][2] <= LineLength(lineData, sel, args)

\* C1: after createRow on a well-formed row the background spans tile the
\* row: the first starts at column 0, each later one starts where the one
\* before it ends, and their spans sum to the iterated length.
C1_BackgroundTiles ==
    (pc = "done" /\ RangesWithinLength) =>
        /\ \A i \in 1..Len(backgroundElements) :
              BgStart(backgroundElements[i]) =
                 (IF i = 1 THEN 0
                  ELSE BgStart(backgroundElements[i - 1]) + BgSpan(backgroundElements[i - 1]))
        /\ SumSpans(backgroundElements) = loc.lineLength

\* A row of full length with a wide cell, a joined range and several
\* background spans has been rendered.
C1_Witness ==
    /\ pc = "done"
    /\ loc.lineLength = Cols
    /\ joinedSrc # <<>>
    /\ Len(backgroundElements) >= 2
    /\ \E i \in 1..Len(lineData) : lineData[i].width = 2
    /\ SumSpans(backgroundElements) = Cols

\* C6: the iterated length is the line's length when the row is within the
\* rows of the selection, else the trimmed length; on the cursor row it is
\* raised to cursorX + 1 when smaller; and every column below it, the cursor
\* column among them, is covered by an iteration of the loop.
C6_LineLength ==
    LET inRows == sel.set /\ sel.start[2] <= args.row /\ args.row <= sel.end[2]
        base == IF inRows THEN Len(lineData) ELSE getNoBgTrimmedLength(lineData)
    IN  /\ pc \in {"loop", "done"} =>
              loc.lineLength = (IF args.isCursorRow /\ base < args.cursorX + 1
                                THEN args.cursorX + 1 ELSE base)
        /\ (pc = "done" /\ args.isCursorRow) =>
              \E k \in 1..Len(hist) :
                  /\ hist[k].x <= args.cursorX
                  /\ args.cursorX <= (IF hist[k].skipped THEN hist[k].x
                                      ELSE hist[k].view.lastCharX)

\* The cursor is beyond the trimmed length of a row outside the selection,
\* and the row has been rendered up to the cursor.
C6_Witness ==
    /\ pc = "done"
    /\ args.isCursorRow
    /\ ~isRowInSelection(sel, args.row)
    /\ getNoBgTrimmedLength(lineData) < args.cursorX + 1
    /\ loc.lineLength = args.cursorX + 1
    /\ loc.lineLength < Len(lineData)

\* C7: a cell of width 0 starts no background span and no character span,
\* is handled by no iteration (so it gives no text and adds to no span), and
\* the background span that covers the wide cell to its left covers it too.
C7_ContinuationNotEmitted ==
    \A c \in 0..(Len(lineData) - 1) :
        lineData[c + 1].width = 0 =>
            /\ \A i \in 1..Len(backgroundElements) : BgStart(backgroundElements[i]) # c
            /\ \A k \in 1..Len(hist) : hist[k].x = c => hist[k].skipped
            /\ (pc = "done" /\ c - 1 < loc.lineLength) =>
                  \E i \in 1..Len(backgroundElements) :
                      /\ BgStart(backgroundElements[i]) <= c - 1
                      /\ c < BgStart(backgroundElements[i]) + BgSpan(backgroundElements[i])

\* A wide cell in the middle of the row was handled, its right half was
\* passed over, and a narrow cell after it extended the same background span.
C7_Witness ==
    /\ pc = "done"
    /\ \E k \in 1..Len(hist) :
          /\ hist[k].skipped
          /\ hist[k].x >= 2
          /\ hist[k].x + 1 < loc.lineLength
          /\ \E i \in 1..Len(backgroundElements) :
                /\ BgStart(backgroundElements[i]) < hist[k].x - 1
                /\ BgStart(backgroundElements[i]) + BgSpan(backgroundElements[i]) > hist[k].x + 1

\* Whether an element of the result is a background span.
IsBackgroundElement(e) == "left" \in DOMAIN e

\* C8: the returned list is the background spans followed by the character
\* spans, and in each group the starting columns increase strictly.
C8_OutputOrder ==
    pc = "done" =>
        /\ Len(result) = Len(backgroundElements) + Len(charElements)
        /\ \A i \in 1..Len(result) :
              IsBackgroundElement(result[i]) <=> i <= Len(backgroundElements)
        /\ \A i \in 1..Len(backgroundElements) : result[i] = backgroundElements[i]
        /\ \A i \in 1..Len(charElements) :
              result[Len(backgroundElements) + i] = charElements[i]
        /\ \A i \in 2..Len(backgroundElements) :
              BgStart(result[i - 1]) < BgStart(result[i])
        /\ \A i \in 2..Len(charElements) : CharStart(i - 1) < CharStart(i)

\* A row was returned with at least two spans of each kind.
C8_Witness ==
    /\ pc = "done"
    /\ Len(backgroundElements) >= 2
    /\ Len(charElements) >= 2
    /\ Len(result) >= 4

\* The iterations that handled column col.
HandledAt(col) == {k \in 1..Len(hist) : ~hist[k].skipped /\ hist[k].x = col}

\* The character spans opened at column col.
CharSpansAt(col) ==
    {hist[k].charIndex : k \in {j \in HandledAt(col) : ~hist[j].mergedChars}}

\* What holds of a joined range whatever its text: one character span starts
\* at its first column, no span of either kind starts inside it, the loop
\* goes on at its end, and the range is off the list for good.
JoinedRangeConsumed(r) ==
    /\ Cardinality(HandledAt(r[1])) = 1
    /\ Cardinality(CharSpansAt(r[1])) = 1
    /\ \A k \in HandledAt(r[1]) : hist[k].view.isJoined /\ hist[k].next = r[2]
    /\ \A k \in 1..Len(hist) : ~(r[1] < hist[k].x /\ hist[k].x < r[2])
    /\ \A i \in 1..Len(backgroundElements) :
          ~(r[1] < BgStart(backgroundElements[i]) /\ BgStart(backgroundElements[i]) < r[2])
    /\ \A i \in 1..Len(loc.joinedRanges) : loc.joinedRanges[i] # r
    /\ x >= r[2]

\* The final text of the character span opened at column col.
TextOfSpanAt(col) == charElements[CHOOSE i \in CharSpansAt(col) : TRUE].textContent

NoDecorations == \A c \in DOMAIN decoAt : decoAt[c] = <<>>

\* All cells of the line have the same attributes.
UniformAttributes ==
    \A i \in 1..Len(lineData) :
        /\ lineData[i].fg = lineData[1].fg
        /\ lineData[i].bg = lineData[1].bg
        /\ lineData[i].ext = lineData[1].ext

\* The columns below the iterated length that hold a cell of non-zero width.
RenderedColumns == {c \in 0..(loc.lineLength - 1) : lineData[c + 1].width # 0}

\* The one background span and the one character span span the row.
OneRunEach(spanCells) ==
    /\ Len(backgroundElements) = 1
    /\ Len(charElements) = 1
    /\ BgStart(backgroundElements[1]) = 0
    /\ BgSpan(backgroundElements[1]) = spanCells
    /\ CharStart(1) = 0
    /\ Len(charElements[1].textContent) = Cardinality(RenderedColumns)

\* C3: a row with no selection, no decorations and uniform attributes gives
\* exactly one background span and one character span, each spanning the
\* iterated length.
C3_UniformRow ==
    (pc = "done" /\ ~sel.set /\ NoDecorations /\ UniformAttributes) =>
        OneRunEach(loc.lineLength)

\* C3 (amended): the same for a row that has at least one iterated column,
\* is not the cursor row, has no joined range and no hovered link, and whose
\* cells all render to the same letter-spacing; the background span is one
\* cell longer than the iterated length when the right half of a last wide
\* cell lies beyond it.
C3_UniformRowAmended ==
    (/\ pc = "done" /\ ~sel.set /\ NoDecorations /\ UniformAttributes
     /\ loc.lineLength > 0
     /\ ~args.isCursorRow
     /\ joinedSrc = <<>>
     /\ (args.linkStart = -1 \/ args.linkEnd = -1)
     /\ \A c, d \in RenderedColumns : SpacingOf(lineData[c + 1]) = SpacingOf(lineData[d + 1]))
    => OneRunEach(loc.lineLength
                  + (IF lineData[loc.lineLength].width = 2 THEN 1 ELSE 0))

\* A uniform row of a character, a blank and a wide character was rendered
\* into one span of each kind.
C3_Witness ==
    /\ pc = "done" /\ ~sel.set /\ NoDecorations /\ UniformAttributes
    /\ ~args.isCursorRow /\ joinedSrc = <<>> /\ args.linkStart = -1
    /\ loc.lineLength = Cols
    /\ \E i \in 1..Len(lineData) : lineData[i].width = 2
    /\ \E i \in 1..Len(lineData) : lineData[i].chars = <<97>>
    /\ lineData[1].chars = <<>>
    /\ Len(charElements) = 1 /\ Len(backgroundElements) = 1
    /\ Len(charElements[1].textContent) = Cols - 1

\* Whether the cell of column col is in the selection, and whether one of its
\* decorations is on the top layer.
Selected(col) == isCellInSelection(sel, col, args.row)
HasTopDecoration(col) ==
    \E i \in 1..Len(decoAt[col]) : Decoration(decoAt[col][i]).layer = "top"

\* The background span a cell on its own would get: its paint resolved from
\* its own words, its decorations and its selection membership.
OwnBackground(col) ==
    NewBackgroundElement(col, ResolvePaint(loadCell(lineData, col), decoAt[col],
                                           Selected(col), opts))

\* C2: every handled column lies in a background span whose paint (class
\* list and colour) is the one the cell of the column resolves to on its own.
C2_OwnBackground ==
    pc = "done" =>
        \A k \in 1..Len(hist) :
            ~hist[k].skipped =>
                LET e == backgroundElements[hist[k].backgroundIndex]
                    own == OwnBackground(hist[k].x)
                IN  e.classes = own.classes /\ e.backgroundColor = own.backgroundColor

\* The selection background in use, and a background span painted with it.
SelectionBackgroundInUse ==
    IF opts.isFocused THEN SelectionBackgroundOpaque ELSE SelectionInactiveBackgroundOpaque
PaintedWithSelection(e) ==
    e.classes = <<"xterm-bg">> /\ e.backgroundColor = Css(SelectionBackgroundInUse)

\* The background spans that cover column col.
Covering(col) ==
    {i \in 1..Len(backgroundElements) :
        /\ BgStart(backgroundElements[i]) <= col
        /\ col < BgStart(backgroundElements[i]) + BgSpan(backgroundElements[i])}

\* The selected column col lies under the selection background, and the
\* paint resolved at it has the selection background as its override, not
\* the half-opacity one of a dim cell.
UnderSelectionBackground(col) ==
    /\ \E i \in Covering(col) : PaintedWithSelection(backgroundElements[i])
    /\ \A k \in HandledAt(col) :
          hist[k].work => hist[k].paint.bgOverride = SelectionBackgroundInUse

\* C9: every selected cell without a top-layer decoration lies under a
\* background span painted with the selection background, whatever its own
\* background, inverse flag, dim flag or lower decoration; the dim override
\* is not used for it.
C9_SelectionBackground ==
    pc = "done" =>
        \A col \in 0..(loc.lineLength - 1) :
            (Selected(col) /\ ~HasTopDecoration(col)) => UnderSelectionBackground(col)

\* C9 (amended): the same for the selected cells the loop handles, which
\* leaves out the right half of a wide character and the columns of a joined
\* range behind its first.
C9_SelectionBackgroundAmended ==
    pc = "done" =>
        \A col \in 0..(loc.lineLength - 1) :
            (Selected(col) /\ ~HasTopDecoration(col) /\ HandledAt(col) # {})
                => UnderSelectionBackground(col)

\* An unfocused row was rendered on which a selected dim cell with a lower
\* decoration and a selected inverse cell lie under the inactive selection
\* background.
C9_Witness ==
    /\ pc = "done" /\ ~opts.isFocused
    /\ \E col \in 0..(loc.lineLength - 1) :
          /\ Selected(col) /\ isDim(lineData[col + 1]) /\ decoAt[col] = <<"dBg">>
          /\ HandledAt(col) # {}
          /\ \E i \in Covering(col) :
                backgroundElements[i].backgroundColor = Css(SelectionInactiveBackgroundOpaque)
    /\ \E col \in 0..(loc.lineLength - 1) :
          /\ Selected(col) /\ isInverse(lineData[col + 1]) /\ HandledAt(col) # {}
          /\ \E k \in HandledAt(col) : hist[k].mergedBackground

\* The cell b differs from the cell a in the colour of its foreground only.
DiffersInFgColourOnly(a, b) ==
    /\ (a.fg.cm # b.fg.cm \/ a.fg.color # b.fg.color)
    /\ a.fg.flags = b.fg.flags
    /\ a.bg = b.bg /\ a.ext = b.ext /\ a.width = b.width

\* A character span, a background span starts at column col.
CharSpanStartsAt(col) == CharSpansAt(col) # {}
BackgroundSpanStartsAt(col) ==
    \E i \in 1..Len(backgroundElements) : BgStart(backgroundElements[i]) = col

\* C4: where the cell of column k differs from the cell of column k-1 in its
\* foreground colour only, a character span starts at k, and no background
\* span starts at k.  The claim is taken with the exceptions the merge rules
\* state: no character span is demanded between two selected cells under a
\* selection foreground, and the background span is demanded to go on only
\* when the two columns are both selected or both not, have the same
\* decorations, and column k-1 was handled by itself.
C4_ForegroundBoundary ==
    pc = "done" =>
        \A k \in 1..(loc.lineLength - 1) :
            DiffersInFgColourOnly(lineData[k], lineData[k + 1]) =>
                /\ ~(Selected(k - 1) /\ Selected(k) /\ opts.selectionForeground # NoColor)
                      => CharSpanStartsAt(k)
                /\ (/\ Selected(k - 1) = Selected(k)
                    /\ isSameDecorations(decoAt[k - 1], decoAt[k])
                    /\ HandledAt(k - 1) # {})
                      => ~BackgroundSpanStartsAt(k)

\* C10: with a selection foreground and no minimum contrast, the character
\* span of every handled selected cell without a top-layer decoration has the
\* selection foreground as its colour, and the character span of no handled
\* cell outside the selection has it.
C10_SelectionForeground ==
    (pc = "done" /\ opts.selectionForeground # NoColor /\ opts.minimumContrastRatio = 1) =>
        \A k \in 1..Len(hist) :
            ~hist[k].skipped =>
                LET e == charElements[hist[k].charIndex]
                IN  /\ (Selected(hist[k].x) /\ ~HasTopDecoration(hist[k].x))
                          => e.color = Css(opts.selectionForeground)
                    /\ ~Selected(hist[k].x) => e.color # Css(opts.selectionForeground)

\* The character span that holds the text of an iteration's cell.
CharSpanOf(k) == charElements[hist[k].charIndex]

\* C11: a handled selected cell with a top-layer decoration lies under a
\* background span that has the colours the cell and its decorations resolve
\* to, not the selection background; its character span is not coloured
\* with the selection foreground, and a character span opened at the cell
\* has the class xterm-decoration-top.
C11_TopLayerOverSelection ==
    pc = "done" =>
        \A k \in 1..Len(hist) :
            (~hist[k].skipped /\ Selected(hist[k].x) /\ HasTopDecoration(hist[k].x)) =>
                LET e == backgroundElements[hist[k].backgroundIndex]
                    own == NewBackgroundElement(hist[k].x,
                              ResolvePaint(loadCell(lineData, hist[k].x), decoAt[hist[k].x],
                                           FALSE, opts))
                IN  /\ ~PaintedWithSelection(e)
                    /\ e.classes = own.classes /\ e.backgroundColor = own.backgroundColor
                    /\ opts.selectionForeground # NoColor
                          => CharSpanOf(k).color # Css(opts.selectionForeground)
                    /\ ~hist[k].mergedChars
                          => \E i \in 1..Len(CharSpanOf(k).className) :
                                CharSpanOf(k).className[i] = "xterm-decoration-top"

\* Whether a character span has a class.
HasClass(e, class) == \E i \in 1..Len(e.className) : e.className[i] = class

\* C12: on the cursor row, the cursor neither hidden nor uninitialized, the
\* character span of a joined range [s, e) with s <= cursorX < e has the
\* cursor class.
C12_CursorOnJoinedRange ==
    (pc = "done" /\ args.isCursorRow /\ ~opts.isCursorHidden /\ opts.isCursorInitialized) =>
        \A i \in 1..Len(joinedSrc) :
            (/\ joinedSrc[i][1] <= args.cursorX /\ args.cursorX < joinedSrc[i][2]
             /\ CharSpansAt(joinedSrc[i][1]) # {})
            => HasClass(charElements[CHOOSE j \in CharSpansAt(joinedSrc[i][1]) : TRUE],
                        "xterm-cursor")

\* What the cell of an iteration may put into its character span when the
\* text of an invisible cell is blanked: the whitespace (non-breaking under
\* an underline or an overline) for an invisible cell, its characters else.
BlankedChars(v) ==
    IF isInvisible(v.cell)
    THEN (IF isUnderline(v.cell) \/ isOverline(v.cell) THEN NBSP ELSE WHITESPACE_CELL_CHAR)
    ELSE v.chars

\* The blanked characters of the iterations from k on that belong to the
\* character span i, in the order of the columns.
RECURSIVE BlankedTextFrom(_, _)
BlankedTextFrom(i, k) ==
    IF k > Len(hist) THEN <<>>
    ELSE (IF ~hist[k].skipped /\ hist[k].charIndex = i THEN BlankedChars(hist[k].view) ELSE <<>>)
         \o BlankedTextFrom(i, k + 1)

\* C13: the text of every character span is made of the characters of its
\* visible cells and of one whitespace for each of its invisible cells,
\* whether the invisible cell opened the span or was appended to it.
C13_InvisibleBlanked ==
    pc = "done" =>
        \A i \in 1..Len(charElements) :
            charElements[i].textContent = BlankedTextFrom(i, 1)

\* The cells a claim about the selection is stated for: every column and row
\* of the grid.
GridCells == (0..Cols) \X (0..MaxRow)

\* The selection test the loop applied agrees with a predicate on the cells.
AppliedAs(P(_, _)) ==
    \A k \in 1..Len(hist) :
        ~hist[k].skipped => (hist[k].view.isInSelection <=> P(hist[k].x, args.row))

\* The rectangle of column-select mode: the rows of the selection and the
\* columns from the lesser to the greater of the two end columns.
InRectangle(cx, y) ==
    /\ sel.start[2] <= y /\ y <= sel.end[2]
    /\ Min(sel.start[1], sel.end[1]) <= cx /\ cx < Max(sel.start[1], sel.end[1])

\* The selection with the columns of its two ends exchanged.
SwappedColumns(s) ==
    [s EXCEPT !.start = <<s.end[1], s.start[2]>>, !.end = <<s.start[1], s.end[2]>>]

\* C19: in column-select mode a cell is in the selection exactly when its
\* row is within the rows of the selection and its column is from the lesser
\* end column up to, not including, the greater one; exchanging the two end
\* columns changes nothing.
C19_ColumnSelect ==
    (sel.set /\ sel.columnSelectMode) =>
        /\ \A c \in GridCells :
              /\ isCellInSelection(sel, c[1], c[2]) <=> InRectangle(c[1], c[2])
              /\ isCellInSelection(SwappedColumns(sel), c[1], c[2])
                    <=> isCellInSelection(sel, c[1], c[2])
        /\ AppliedAs(InRectangle)

\* A row was rendered under a column selection whose start column is right
\* of its end column, with a cell inside and a cell outside of it.
C19_Witness ==
    /\ pc = "done" /\ sel.set /\ sel.columnSelectMode
    /\ sel.start[1] > sel.end[1]
    /\ \E k \in 1..Len(hist) : ~hist[k].skipped /\ hist[k].view.isInSelection
    /\ \E k \in 1..Len(hist) : ~hist[k].skipped /\ ~hist[k].view.isInSelection

\* The stream of normal mode, case by case of the row.
InStream(cx, y) ==
    IF sel.start[2] = sel.end[2]
    THEN y = sel.start[2] /\ sel.start[1] <= cx /\ cx < sel.end[1]
    ELSE IF sel.start[2] < sel.end[2]
    THEN CASE y = sel.start[2] -> cx >= sel.start[1]
           [] y = sel.end[2] -> cx < sel.end[1]
           [] OTHER -> sel.start[2] < y /\ y < sel.end[2]
    ELSE FALSE

\* C20: in normal mode a cell is in the selection exactly when its row is
\* strictly between the end rows, or the selection is on the one row of the
\* cell and the column is from the start column up to, not including, the
\* end column, or the selection spans several rows and the cell is on the end
\* row before the end column or on the start row at or behind the start
\* column; without a selection no cell is in it.
C20_StreamSelect ==
    /\ (sel.set /\ ~sel.columnSelectMode) =>
          /\ \A c \in GridCells : isCellInSelection(sel, c[1], c[2]) <=> InStream(c[1], c[2])
          /\ AppliedAs(InStream)
    /\ ~sel.set =>
          /\ \A c \in GridCells : ~isCellInSelection(sel, c[1], c[2])
          /\ \A k \in 1..Len(hist) : ~hist[k].skipped => ~hist[k].view.isInSelection

\* A row was rendered that is the end row of a selection of several rows,
\* with a cell before the end column and a cell behind it.
C20_Witness ==
    /\ pc = "done" /\ sel.set /\ ~sel.columnSelectMode
    /\ sel.start[2] < sel.end[2] /\ sel.end[2] = args.row
    /\ \E k \in 1..Len(hist) : ~hist[k].skipped /\ hist[k].view.isInSelection
    /\ \E k \in 1..Len(hist) : ~hist[k].skipped /\ ~hist[k].view.isInSelection

\* The iteration that opened the character span an iteration's cell is in.
OpenerOf(k) ==
    CHOOSE j \in 1..Len(hist) :
        ~hist[j].skipped /\ ~hist[j].mergedChars /\ hist[j].charIndex = hist[k].charIndex

\* An iteration's cell has a character that is exempt from the contrast
\* demands.
Excluded(k) == excludeFromContrastRatioDemands(getCode(hist[k].view.cell))

\* C14: no handled cell with an exempt character lies in a character span
\* whose colour was adjusted for contrast, whether the cell opened the span
\* or was appended to it.
C14_ExcludedUnadjusted ==
    pc = "done" =>
        \A k \in 1..Len(hist) :
            (~hist[k].skipped /\ Excluded(k)) => ~hist[OpenerOf(k)].contrast.applied

\* The foreground a cell gets when a character span is opened for it alone:
\* its own paint, and the contrast against its own background.
OwnForeground(col) ==
    ForegroundPaint(loadCell(lineData, col),
                    ResolvePaint(loadCell(lineData, col), decoAt[col], Selected(col), opts),
                    opts, [normal |-> {}, half |-> {}])

\* A character span has the foreground fp: its colour and its class.
HasForeground(e, fp) ==
    /\ e.color = fp.color
    /\ \A i \in 1..Len(fp.classes) : HasClass(e, fp.classes[i])
    /\ fp.classes = <<>> => \A c \in 0..15 : ~HasClass(e, "xterm-fg-" \o ToString(c))

\* C15: with a minimum contrast ratio above 1, the character span of every
\* handled cell that is not a joined one and whose character is not exempt
\* has the foreground that the contrast enforcement gives for the cell's own
\* colours and background (half the ratio for a dim cell).
C15_ContrastOfOwnBackground ==
    (pc = "done" /\ opts.minimumContrastRatio > 1) =>
        \A k \in 1..Len(hist) :
            (~hist[k].skipped /\ ~hist[k].view.isJoined /\ ~Excluded(k)) =>
                HasForeground(CharSpanOf(k), OwnForeground(hist[k].x))

\* No colour of a decoration or of the selection overrides the colours of
\* an iteration's cell.
NoDecorationOverride(k) ==
    /\ ~hist[k].view.isInSelection
    /\ \A i \in 1..Len(hist[k].view.decorations) :
          /\ Decoration(hist[k].view.decorations[i]).bg = NoColor
          /\ Decoration(hist[k].view.decorations[i]).fg = NoColor

\* The iteration k asks for the contrast of the pair of colours the earlier
\* iteration j asked for, both for dim cells or both for cells that are not.
SameRequest(j, k) ==
    /\ j < k
    /\ hist[j].contrast.requested /\ hist[k].contrast.requested
    /\ NoDecorationOverride(j) /\ NoDecorationOverride(k)
    /\ hist[j].contrast.bg = hist[k].contrast.bg
    /\ hist[j].contrast.fg = hist[k].contrast.fg
    /\ hist[j].contrast.dim = hist[k].contrast.dim

\* C16: when the contrast of a pair of colours is asked for a second time,
\* no decoration override in effect either time, the colour-adjustment
\* function is not called again and the result is the one of the first
\* time; for dim cells as for the others.
C16_CacheRoundTrip ==
    \A k \in 1..Len(hist) : \A j \in 1..Len(hist) :
        (~hist[j].skipped /\ ~hist[k].skipped /\ SameRequest(j, k)) =>
            /\ ~hist[k].contrast.computed
            /\ hist[k].contrast.applied = hist[j].contrast.applied
            /\ hist[k].contrast.color = hist[j].contrast.color

\* C17: a call of createRow with the arguments, the selection, the
\* decorations and the options of an earlier call, and a fresh list of joined
\* ranges, returns a list equal to the one the earlier call returned; the
\* caches are those the earlier call left.
C17_Idempotent ==
    pc = "done" => \A i \in 1..Len(earlier) : earlier[i] = result

\* createRow returned a second time, on a row with a joined range and two
\* character spans or more, one with a colour adjusted for contrast, the
\* caches filled by the first call.
C17_Witness ==
    /\ pc = "done" /\ Len(earlier) >= 1
    /\ joinedSrc # <<>>
    /\ Len(charElements) >= 2
    /\ caches.normal # {} /\ caches.half # {}
    /\ \E k \in 1..Len(hist) : ~hist[k].skipped /\ hist[k].contrast.applied
    /\ \E k \in 1..Len(hist) :
          ~hist[k].skipped /\ hist[k].contrast.requested /\ ~hist[k].contrast.computed

\* The paint of a background span, and the style of a character span: all
\* of the span but its place, its width and its text.
BackgroundPaintOf(e) == [classes |-> e.classes, backgroundColor |-> e.backgroundColor]
CharStyleOf(e) == [e EXCEPT !.textContent = <<>>]

\* The character span i is that of a cursor cell or of a joined unit.
CursorOrJoinedSpan(i) ==
    \E k \in 1..Len(hist) :
        /\ ~hist[k].skipped /\ ~hist[k].mergedChars /\ hist[k].charIndex = i
        /\ hist[k].view.isCursorCell \/ hist[k].view.isJoined

\* C18 as stated: no two adjacent background spans have the same paint, and
\* no two adjacent character spans have the same style, paint and spacing
\* unless one of them is a cursor cell or a joined unit.
C18_RunsMaximal ==
    pc = "done" =>
      /\ \A i \in 1..(Len(backgroundElements) - 1) :
            BackgroundPaintOf(backgroundElements[i]) #
              BackgroundPaintOf(backgroundElements[i + 1])
      /\ \A i \in 1..(Len(charElements) - 1) :
            CharStyleOf(charElements[i]) = CharStyleOf(charElements[i + 1])
              => CursorOrJoinedSpan(i) \/ CursorOrJoinedSpan(i + 1)

\* Two cells the merge test of the background cannot tell apart: the same
\* decorations, both in the selection or both outside it, and outside it the
\* same background word.
SameBackgroundAttributes(a, b) ==
    /\ isSameDecorations(a.view.decorations, b.view.decorations)
    /\ a.view.isInSelection = b.view.isInSelection
    /\ ~a.view.isInSelection => a.view.cell.bg = b.view.cell.bg

\* Two cells the merge test of the characters cannot tell apart: the same
\* decorations, extended attributes, link hover state and spacing, both in
\* the selection or both outside it, and the same foreground word unless
\* both are selected and a selection foreground is set.
SameCharacterAttributes(a, b) ==
    /\ isSameDecorations(a.view.decorations, b.view.decorations)
    /\ a.view.isInSelection = b.view.isInSelection
    /\ a.view.cell.ext = b.view.cell.ext
    /\ a.view.isLinkHover = b.view.isLinkHover
    /\ a.view.spacing = b.view.spacing
    /\ \/ a.view.cell.fg = b.view.cell.fg
       \/ a.view.isInSelection /\ opts.selectionForeground # NoColor

\* C18 (amended): two cells handled one after the other that agree on the
\* attributes the merge tests compare are never in two spans: they share
\* their background span, and they share their character span unless one of
\* them is a cursor cell or a joined unit.
C18_RunsMaximalAmended ==
    \A i \in 1..(Len(Handled) - 1) :
        LET a == Handled[i]
            b == Handled[i + 1]
        IN  /\ SameBackgroundAttributes(a, b) => b.backgroundIndex = a.backgroundIndex
            /\ (/\ SameCharacterAttributes(a, b)
                /\ ~a.view.isCursorCell /\ ~a.view.isJoined
                /\ ~b.view.isCursorCell /\ ~b.view.isJoined)
               => b.charIndex = a.charIndex

\* A row rendered to its end where two selected cells of different
\* foreground words share a character span under a selection foreground,
\* two cells of different background words share a background span, and a
\* third span starts where the attributes change.
C18_Witness ==
    /\ pc = "done"
    /\ Len(backgroundElements) >= 2
    /\ Len(charElements) >= 2
    /\ \E i \in 1..(Len(Handled) - 1) :
          LET a == Handled[i]
              b == Handled[i + 1]
          IN  /\ SameCharacterAttributes(a, b) /\ a.view.cell.fg # b.view.cell.fg
              /\ b.charIndex = a.charIndex
    /\ \E i \in 1..(Len(Handled) - 1) :
          LET a == Handled[i]
              b == Handled[i + 1]
          IN  /\ SameBackgroundAttributes(a, b) /\ a.view.cell.bg # b.view.cell.bg
              /\ b.backgroundIndex = a.backgroundIndex

\* ---- the other classes: each is driven alone, the row factory at rest
InitOthers ==
    InitWith(Lines(Cols, {Narrow(97, FgDefault, BgDefault)}),
             {NoCursorArgs}, 0, {<<>>}, {DefaultOptions}, {NoSelection})

SpecThrowIfFalsy == InitOthers /\ [][ThrowIfFalsy]_vars

NextUnicode ==
    \/ RegisterVersion
    \/ SetActiveVersion

SpecUnicode == InitOthers /\ [][NextUnicode]_vars

NextComposition ==
    \/ TextareaInput
    \/ CompositionStart
    \/ CompositionUpdate
    \/ CompositionEnd
    \/ KeyDown
    \/ Timer

SpecComposition == InitOthers /\ [][NextComposition]_vars

NextViewport ==
    \/ SyncScrollArea
    \/ AnimationFrame
    \/ BufferChange
    \/ UserScroll
    \/ VisibilityChange
    \/ ScrollEvent

SpecViewport == InitOthers /\ [][NextViewport]_vars

\* The viewport under the wheel events handed to onWheel and the touches
\* of a finger: they move scrollTop as the scroll bar does.
NextPointer ==
    \/ SyncScrollArea
    \/ AnimationFrame
    \/ BufferChange
    \/ ScrollEvent
    \/ OnWheel
    \/ OnTouchStart
    \/ OnTouchMove

\* The viewport is constructed on Windows or on another platform.
InitPointer ==
    /\ InitRow(Lines(Cols, {Narrow(97, FgDefault, BgDefault)}),
               {NoCursorArgs}, 0, {<<>>}, {DefaultOptions}, {NoSelection})
    /\ guard = <<>>
    /\ unicode = UnicodeProvider
    /\ composition = CompositionHelper
    /\ viewport \in {[Viewport EXCEPT !.isWindows = isWindows] : isWindows \in BOOLEAN}
    /\ image = ImageRenderer

SpecPointer == InitPointer /\ [][NextPointer]_vars

\* The falsy values.
Falsy == {JsValue("undefined", FALSE, 0, ""), JsValue("null", FALSE, 0, ""), JsValue("boolean", FALSE, 0, ""), JsValue("number", FALSE, 0, ""), JsValue("NaN", FALSE, 0, ""), JsValue("string", FALSE, 0, "")}

\* C21 as stated: throwIfFalsy throws exactly when the value is null or
\* undefined, and returns every other value unchanged, 0, the empty string
\* and false included.
C21_ThrowsWhenAbsent ==
    \A i \in 1..Len(guard) :
        /\ guard[i].outcome.thrown <=> guard[i].value.type \in {"undefined", "null"}
        /\ ~guard[i].outcome.thrown => guard[i].outcome.returned = guard[i].value

\* C21 (amended): throwIfFalsy throws exactly when the value is falsy (null,
\* undefined, false, 0, NaN or the empty string), and returns every other
\* value unchanged.
C21_ThrowsWhenFalsy ==
    \A i \in 1..Len(guard) :
        /\ guard[i].outcome.thrown <=> guard[i].value \in Falsy
        /\ ~guard[i].outcome.thrown => guard[i].outcome.returned = guard[i].value

\* throwIfFalsy was called with 0 and threw, and was called with an object
\* and returned it.
C21_Witness ==
    /\ \E i \in 1..Len(guard) :
          guard[i].value = JsValue("number", FALSE, 0, "") /\ guard[i].outcome.thrown
    /\ \E i \in 1..Len(guard) :
          /\ guard[i].value = JsValue("object", FALSE, 0, "element")
          /\ ~guard[i].outcome.thrown
          /\ guard[i].outcome.returned = JsValue("object", FALSE, 0, "element")

\* The registered version numbers, and the call of setActiveVersion the
\* provider saw last.
Registered == {parseFloat(key) : key \in unicode.versions}
Activated(mode) ==
    /\ unicode.call.op = "setActiveVersion"
    /\ unicode.call.mode = mode
    /\ ~unicode.thrown

\* C22: setActiveVersion succeeds for every version number and every mode
\* when a version is registered; it fails only when none is.
C22_AlwaysSucceeds ==
    unicode.call.op = "setActiveVersion" => (unicode.thrown <=> unicode.versions = {})

\* C23: 'next' activates the least registered version that is not below the
\* one asked for, or the highest; 'previous' the greatest that is not above
\* it, or the lowest; no mode and 'closest' a registered version of least
\* distance, the lower one of two; and after every call that does not throw
\* getActiveVersion() is the value returned and wcwidth is that version's.
C23_ActivatedVersion ==
    LET v == unicode.call.version
        r == unicode.returned
        dist(a) == IF a < v THEN v - a ELSE a - v
        atLeast == {a \in Registered : a >= v}
        atMost == {a \in Registered : a <= v}
    IN  /\ Activated("next") =>
              /\ r \in Registered
              /\ IF atLeast # {} THEN r \in atLeast /\ \A a \in atLeast : r <= a
                 ELSE \A a \in Registered : a <= r
        /\ Activated("previous") =>
              /\ r \in Registered
              /\ IF atMost # {} THEN r \in atMost /\ \A a \in atMost : a <= r
                 ELSE \A a \in Registered : r <= a
        /\ (Activated("undefined") \/ Activated("closest")) =>
              /\ r \in Registered
              /\ \A a \in Registered : dist(r) <= dist(a)
              /\ \A a \in Registered : dist(a) = dist(r) => r <= a
        /\ (unicode.call.op = "setActiveVersion" /\ ~unicode.thrown) =>
              /\ unicode.version = r
              /\ unicode.wcwidth = VersionKey(r)

\* 'next' was asked with a version halfway between two of the four that are
\* registered and the higher one was activated.
C23_Witness ==
    /\ Activated("next")
    /\ Cardinality(unicode.versions) = 4
    /\ unicode.returned > unicode.call.version
    /\ \E a \in Registered :
          a < unicode.call.version /\ unicode.call.version - a = unicode.returned - unicode.call.version

\* The calls i and j of terminal.handler forward a character of the textarea
\* twice.
ForwardedTwice(i, j) ==
    LET a == composition.handler[i]
        b == composition.handler[j]
    IN  /\ a.from < a.to /\ b.from < b.to
        /\ a.from < b.to /\ b.from < a.to

\* C24: the text a keydown forwards when it finalizes a composition at once
\* is not forwarded again by a delayed send of compositionend, whether the
\* send was scheduled before or after that keydown.
C24_ForwardedOnce ==
    \A i, j \in 1..Len(composition.handler) :
        (/\ i < j
         /\ composition.handler[i].by = "keydown"
         /\ composition.handler[j].by = "timer")
        => ~ForwardedTwice(i, j)

\* C25: keydown returns false exactly when the key is the composition
\* character 229, or a composition is in progress or being sent and the key
\* is a modifier; while composing or sending, those keys leave the state of
\* the composition as it was, and any other key has terminal.handler called
\* once with the input of the composition before keydown returns true, after
\* which the helper is neither composing nor sending.
C25_KeyDown ==
    LET e == composition.last
        busy == e.isComposing \/ e.isSendingComposition
    IN  e.op = "keydown" =>
          /\ ~e.returned <=> (e.keyCode = 229 \/ (busy /\ e.keyCode \in {16, 17, 18}))
          /\ (busy /\ ~e.returned) =>
                /\ composition.isComposing = e.isComposing
                /\ composition.isSendingComposition = e.isSendingComposition
                /\ composition.compositionPosition = e.compositionPosition
                /\ Len(composition.handler) = e.calls
          /\ (busy /\ e.keyCode \notin {229, 16, 17, 18}) =>
                /\ e.returned
                /\ Len(composition.handler) >= e.calls + 1
                /\ LET call == composition.handler[e.calls + 1]
                       input == Substring(composition.value, e.compositionPosition.start,
                                          e.compositionPosition.end)
                   IN  call.by = "keydown" /\ call.from = input.from /\ call.to = input.to
                /\ ~composition.isComposing
                /\ ~composition.isSendingComposition

\* Enter was pressed while a composition of one character was being sent:
\* keydown forwarded the character and returned true.
C25_Witness ==
    /\ composition.last.op = "keydown"
    /\ composition.last.keyCode = 13
    /\ composition.last.isSendingComposition
    /\ composition.last.returned
    /\ Len(composition.handler) = composition.last.calls + 1
    /\ composition.handler[Len(composition.handler)] = [from |-> 0, to |-> 1, by |-> "keydown"]

\* C26: the scroll event caused by the viewport's own assignment to
\* scrollTop never calls _scrollLines, and every scroll event caused by the
\* user on a visible viewport calls _scrollLines with the difference of the
\* rows.
C26_IgnoreOwnScroll ==
    LET e == viewport.last
    IN  /\ e.causes = {"viewport"} => ~e.called
        /\ (e.causes = {"user"} /\ e.offsetParent) =>
              /\ e.called
              /\ e.amount = ((2 * e.scrollTop + RowHeightPx) \div (2 * RowHeightPx)) - e.ydisp

\* ---- the layers family: one narrow and one wide character under stacks of
\* ---- decorations of both layers, or under a hovered link [linkStart,
\* ---- linkEnd] with either end anywhere on the line or absent (-1)
InitLayers ==
    /\ InitWith(Lines(Cols, {Narrow(97, FgDefault, BgDefault), Wide(20013, FgDefault, BgDefault)}),
                {[NoCursorArgs EXCEPT !.linkStart = ls, !.linkEnd = le] :
                    ls \in -1..(Cols - 1), le \in -1..(Cols - 1)},
                1,
                {<<>>,
                 <<Placed("dTopBg", 0, 2), Placed("dBg", 1, 3)>>,
                 <<Placed("dBg", 0, 3), Placed("dTopBg", 1, 2)>>,
                 <<Placed("dTopFg", 0, 2), Placed("dFg", 1, 3), Placed("dBg", 1, 4)>>,
                 <<Placed("dFg", 0, 2), Placed("dTop", 1, 3), Placed("dBg", 2, 4)>>,
                 <<Placed("dTop", 0, 2), Placed("dBg", 1, 3), Placed("dBg2", 1, 4)>>},
                {DefaultOptions},
                {NoSelection, SelectionPart})
    /\ (args.linkStart # -1 \/ args.linkEnd # -1) =>
          \A c \in DOMAIN decoAt : decoAt[c] = <<>>

SpecLayers == InitLayers /\ [][Next]_vars

\* The paint of the cell of iteration k before its decorations are scanned,
\* and after the first i of them are.
BeforeScan(k) ==
    [hist[k].paint EXCEPT !.isTop = FALSE, !.bgOverride = NoColor, !.fgOverride = NoColor]
ScanPrefix(k, i) ==
    DecorationScan(BeforeScan(k), SubSeq(hist[k].view.decorations, 1, i), 1)
LayerAt(k, i) == Decoration(hist[k].view.decorations[i]).layer

\* C27: in the decoration scan of a cell the top flag, once set, stays set:
\* it is set after every decoration from the first top-layer one on, whatever
\* the layers of the later decorations.
C27_TopFlagOnlyRises ==
    \A k \in 1..Len(hist) : ~hist[k].skipped =>
        \A i \in 0..Len(hist[k].view.decorations) :
        \A j \in i..Len(hist[k].view.decorations) :
            /\ ScanPrefix(k, i).isTop => ScanPrefix(k, j).isTop
            /\ (i >= 1 /\ LayerAt(k, i) = "top") => ScanPrefix(k, j).isTop

\* A cell was handled that has a decoration below the top layer after a
\* top-layer one, and the scan ended with the flag set.
C27_Witness ==
    /\ pc = "done"
    /\ \E k \in 1..Len(hist) :
          /\ ~hist[k].skipped
          /\ \E i, j \in 1..Len(hist[k].view.decorations) :
                i < j /\ LayerAt(k, i) = "top" /\ LayerAt(k, j) # "top"
          /\ ScanPrefix(k, Len(hist[k].view.decorations)).isTop

\* The decorations of the cell of iteration k that define a background
\* (field "bg") or a foreground (field "fg") colour, by their place in the
\* query order; and those of them the scan does not skip: the top-layer
\* ones, and the others that no top-layer decoration precedes.
Defining(k, field) ==
    {i \in 1..Len(hist[k].view.decorations) :
        Decoration(hist[k].view.decorations[i])[field] # NoColor}
NotSkipped(k, field) ==
    {i \in Defining(k, field) :
        LayerAt(k, i) = "top" \/ \A j \in 1..(i - 1) : LayerAt(k, j) # "top"}
Last(indices) == CHOOSE i \in indices : \A j \in indices : j <= i
OverrideOf(k, field) ==
    IF field = "bg" THEN hist[k].paint.bgOverride ELSE hist[k].paint.fgOverride

\* The selection colours replace the decoration overrides of the cell.
SelectionApplies(k) ==
    hist[k].view.isInSelection /\ ~ScanPrefix(k, Len(hist[k].view.decorations)).isTop

\* C28 (as stated): when several decorations of a cell define a background
\* (foreground) colour, the override of the cell is the colour of the last
\* of them in query order, whatever their layers.
C28_LastDecorationWins ==
    \A k \in 1..Len(hist) : (~hist[k].skipped /\ ~SelectionApplies(k)) =>
        \A field \in {"bg", "fg"} :
            Cardinality(Defining(k, field)) >= 2 =>
                OverrideOf(k, field) =
                    Decoration(hist[k].view.decorations[Last(Defining(k, field))])[field]

\* C28 (amended): when several decorations of a cell define a background
\* (foreground) colour, the override of the cell is the colour of the last
\* of them in query order that the scan does not skip, a decoration below
\* the top layer being skipped when a top-layer decoration precedes it; when
\* all of them are skipped there is no override.
C28_LastUnskippedDecorationWins ==
    \A k \in 1..Len(hist) : (~hist[k].skipped /\ ~SelectionApplies(k)) =>
        \A field \in {"bg", "fg"} :
            Cardinality(Defining(k, field)) >= 2 =>
                OverrideOf(k, field) =
                    IF NotSkipped(k, field) = {} THEN NoColor
                    ELSE Decoration(hist[k].view.decorations[Last(NotSkipped(k, field))])[field]

\* The row is done and had a cell with two decorations defining a
\* background, of which the last is skipped and the first is not.
C28_Witness ==
    /\ pc = "done"
    /\ \E k \in 1..Len(hist) :
          /\ ~hist[k].skipped /\ ~SelectionApplies(k)
          /\ Cardinality(Defining(k, "bg")) >= 2
          /\ NotSkipped(k, "bg") # {}
          /\ Last(NotSkipped(k, "bg")) < Last(Defining(k, "bg"))
          /\ hist[k].paint.bgOverride = Decoration("dTopBg").bg

\* The iterations whose cell (a joined range counts as one cell) covers the
\* column of the cursor.
CursorUnits ==
    {k \in 1..Len(hist) :
        ~hist[k].skipped /\ hist[k].x <= args.cursorX /\ args.cursorX <= hist[k].view.lastCharX}

\* C29: on the cursor row the cell at the cursor column, when its width is
\* not 0, is a character span of its own: it opens the span, no other cell
\* is merged into the span, and the span has the cursor class exactly when
\* the cursor is not hidden and is initialized.
C29_CursorCellAlone ==
    (pc = "done" /\ args.isCursorRow /\ loadCell(lineData, args.cursorX).width # 0) =>
        /\ CursorUnits # {}
        /\ \A k \in CursorUnits :
              /\ ~hist[k].mergedChars
              /\ \A j \in 1..Len(hist) :
                    (~hist[j].skipped /\ hist[j].charIndex = hist[k].charIndex) => j = k
              /\ HasClass(CharSpanOf(k), "xterm-cursor")
                    <=> (~opts.isCursorHidden /\ opts.isCursorInitialized)

\* Whether a column lies in the hovered link, and whether it lies in a
\* joined range.
InLink(col) ==
    args.linkStart # -1 /\ args.linkEnd # -1 /\ args.linkStart <= col /\ col <= args.linkEnd
InJoinedRange(col) ==
    \E i \in 1..Len(joinedSrc) : joinedSrc[i][1] <= col /\ col < joinedSrc[i][2]

\* The columns of the i-th character span: those of the cells put into it,
\* a wide character and a joined range with all their columns.
RunColumns(i) ==
    UNION {hist[k].x..(IF hist[k].view.isJoined THEN hist[k].view.lastCharX
                       ELSE hist[k].x + hist[k].view.width - 1) :
              k \in {j \in 1..Len(hist) : ~hist[j].skipped /\ hist[j].charIndex = i}}

\* A character span has the underline of the hover exactly when its first
\* column lies in the hovered link.
HoverUnderline ==
    \A i \in 1..Len(charElements) :
        (charElements[i].textDecoration = "underline") <=> InLink(CharStart(i))

\* C30 (as stated): a character span is underlined by the hover exactly when
\* both ends of the link are set and its first column lies in [linkStart,
\* linkEnd], and no span has a column in the link together with a column
\* outside of it that is in no joined range.
C30_HoverUniform ==
    pc = "done" =>
        /\ HoverUnderline
        /\ \A i \in 1..Len(charElements) :
              ~\E c1, c2 \in RunColumns(i) :
                  InLink(c1) /\ ~InLink(c2) /\ ~InJoinedRange(c2)

\* C30 (amended): the same, columns that are the right half of a wide
\* character (width 0) not counted on either side.
C30_HoverUniformByCell ==
    pc = "done" =>
        /\ HoverUnderline
        /\ \A i \in 1..Len(charElements) :
              ~\E c1, c2 \in RunColumns(i) :
                  /\ InLink(c1) /\ ~InLink(c2) /\ ~InJoinedRange(c2)
                  /\ loadCell(lineData, c1).width # 0
                  /\ loadCell(lineData, c2).width # 0

\* The row is done; the link covers some but not all of its columns, and an
\* underlined span of two cells is followed by a span without the underline.
C30_Witness ==
    /\ pc = "done"
    /\ \E i \in 1..(Len(charElements) - 1) :
          /\ charElements[i].textDecoration = "underline"
          /\ charElements[i + 1].textDecoration = ""
          /\ Cardinality({k \in 1..Len(hist) : ~hist[k].skipped /\ hist[k].charIndex = i}) >= 2
          /\ InLink(CharStart(i)) /\ ~InLink(CharStart(i + 1))

\* The flags of a cell that the style classes of a character span show.
StyleFlags(cell) ==
    <<isBold(cell), isItalic(cell), isDim(cell), isUnderline(cell), isOverline(cell),
      isStrikethrough(cell)>>

\* C31: a cell merged into an open character span has the bold, italic, dim,
\* underline, overline and strikethrough flags of the cell that opened the
\* span.
C31_MergedCellsShareStyle ==
    \A k \in 1..Len(hist) :
        (~hist[k].skipped /\ hist[k].mergedChars) =>
            StyleFlags(hist[k].view.cell) = StyleFlags(hist[OpenerOf(k)].view.cell)

\* C32: a cell in the selection lies on a row in the selection, whatever the
\* selection and its mode; so the row of a selected cell is rendered over
\* the full length of the line, and every selected cell of it that has a
\* width and lies in no joined range is handled by the loop.
C32_SelectedCellsVisited ==
    /\ \A c \in 0..(Len(lineData) - 1) : \A y \in 0..MaxRow :
          isCellInSelection(sel, c, y) => isRowInSelection(sel, y)
    /\ pc = "done" =>
          \A c \in 0..(Len(lineData) - 1) :
              isCellInSelection(sel, c, args.row) =>
                  /\ loc.lineLength = Len(lineData)
                  /\ (loadCell(lineData, c).width # 0 /\ ~InJoinedRange(c)) => HandledAt(c) # {}

\* The row is done; it ends in blank cells, and a blank cell behind the
\* trimmed length is in the selection and was handled.
C32_Witness ==
    /\ pc = "done"
    /\ \E c \in getNoBgTrimmedLength(lineData)..(Len(lineData) - 1) :
          isCellInSelection(sel, c, args.row) /\ HandledAt(c) # {}

\* C33: the timer that keydown sets for the key 229 outside a composition
\* calls terminal.handler with nothing when compositionstart was called
\* between the keydown and the timer, whatever happened after that.
C33_ChangesTimerAfterStart ==
    (/\ composition.last.op = "timer"
     /\ composition.last.timer = "changes"
     /\ composition.last.startsSince > 0)
    => Len(composition.handler) = composition.last.calls

\* C34: the browser never owes the viewport more than one animation frame:
\* a frame is owed exactly while _refreshAnimationFrame holds a handle, so
\* syncScrollArea requests none while one is owed, and the field is null
\* again once the frame has run.
C34_OneFramePending ==
    /\ viewport.frames <= 1
    /\ viewport.refreshAnimationFrame <=> viewport.frames = 1

\* A frame has run (it set the row height), the buffer changed after it and
\* syncScrollArea requested a new frame.
C34_Witness ==
    /\ viewport.currentRowHeight > 0
    /\ viewport.frames = 1
    /\ viewport.refreshAnimationFrame
    /\ viewport.lastRecordedBufferLength > Rows
    /\ viewport.lastRecordedBufferHeight < RowHeightPx * viewport.lastRecordedBufferLength

\* The wheel events under the frames that measure the row height, which is
\* one of CellHeightsPx.
CellHeightsPx == {RowHeightPx, RowHeightPx + 1}

NextWheel ==
    \/ SyncScrollArea
    \/ AnimationFrame
    \/ Wheel

InitWheel ==
    /\ InitRow(Lines(Cols, {Narrow(97, FgDefault, BgDefault)}),
               {NoCursorArgs}, 0, {<<>>}, {DefaultOptions}, {NoSelection})
    /\ guard = <<>>
    /\ unicode = UnicodeProvider
    /\ composition = CompositionHelper
    /\ viewport \in {[Viewport EXCEPT !.cellHeight = height] : height \in CellHeightsPx}
    /\ image = ImageRenderer

SpecWheel == InitWheel /\ [][NextWheel]_vars

\* C35: while every wheel event in pixel mode met a positive row height,
\* getLinesScrolled returns a whole number of lines, the partial amount it
\* keeps is more than -1 and less than 1 line, and the lines returned plus
\* the partial amount are the sum of deltaY divided by the row height (the
\* sum and the quotient taken as the program takes them, on doubles).
C35_WheelConserved ==
    (~viewport.wheelPartialScroll.nan /\ viewport.currentRowHeight > 0) =>
        /\ viewport.wheel.whole
        /\ FloorAbs(viewport.wheelPartialScroll.value) = 0
        /\ DoubleEqual(DoubleAdd(FromInteger(viewport.wheel.lines),
                                 viewport.wheelPartialScroll.value),
                       DoubleDivide(FromInteger(viewport.wheel.deltaY),
                                    FromInteger(viewport.currentRowHeight)))

\* The register listeners of the providers under the registration of
\* versions.
NextListeners ==
    \/ RegisterVersion
    \/ StaticAddRegisterListener
    \/ StaticRemoveRegisterListener
    \/ AddRegisterListener
    \/ RemoveRegisterListener
    \/ RemoveAllRegisterListener
    \/ Dispose

\* The listeners are added in a program whose addons have registered, since
\* the provider was constructed, all but one of the versions they may
\* register: one registration is left, and a registration changes no list
\* of listeners.
InitListeners ==
    /\ InitRow(Lines(Cols, {Narrow(97, FgDefault, BgDefault)}),
               {NoCursorArgs}, 0, {<<>>}, {DefaultOptions}, {NoSelection})
    /\ guard = <<>>
    /\ unicode = [UnicodeProvider EXCEPT
                     !.versions = @ \cup {VersionKey(version) :
                                             version \in 12..(10 + MaxRegistrations)}]
    /\ composition = CompositionHelper
    /\ viewport = Viewport
    /\ image = ImageRenderer

SpecListeners == InitListeners /\ [][NextListeners]_vars

\* How often registerVersion called the function f.
TimesInvoked(f) == Cardinality({i \in 1..Len(unicode.invoked) : unicode.invoked[i] = f})

\* C36 as it was stated: a registerVersion that registers a version calls
\* no function made for a callback of an instance that is disposed, the same
\* callback added twice included, and calls once each function a live
\* instance holds for a callback and the static callback once for each time
\* it is registered.
C36_DisposedListenersSilent ==
    (unicode.call.op = "registerVersion" /\ ~unicode.thrown) =>
        /\ \A i \in 1..Len(unicode.invoked) :
              unicode.invoked[i].kind = "wrapper" =>
                  ~unicode.instances[unicode.invoked[i].instance].disposed
        /\ \A instance \in Instances :
              \A i \in 1..Len(unicode.instances[instance].registerCallbacks) :
                  TimesInvoked(unicode.instances[instance].registerCallbacks[i].func) = 1
        /\ TimesInvoked(StaticCallback) = unicode.statics

\* C36 (amended): a registerVersion that registers a version calls no
\* function made for a callback of an instance that is disposed, the same
\* callback added twice included; it calls once each function a live
\* instance holds for a callback, unless removeAllRegisterListener has taken
\* the function from the static list, and then it does not call it; and it
\* calls the static callback once for each time it was registered since the
\* last removeAllRegisterListener and not removed.
C36_DisposedListenersSilentUnlessRemovedAll ==
    (unicode.call.op = "registerVersion" /\ ~unicode.thrown) =>
        /\ \A i \in 1..Len(unicode.invoked) :
              unicode.invoked[i].kind = "wrapper" =>
                  ~unicode.instances[unicode.invoked[i].instance].disposed
        /\ \A instance \in Instances :
              \A i \in 1..Len(unicode.instances[instance].registerCallbacks) :
                  LET func == unicode.instances[instance].registerCallbacks[i].func
                  IN  TimesInvoked(func) = IF func.id \in unicode.cleared THEN 0 ELSE 1
        /\ TimesInvoked(StaticCallback) = unicode.statics

\* A version was registered after the instance A, to which the callback was
\* added twice, was disposed: the function of the instance B was called, and
\* nothing else.
C36_Witness ==
    /\ unicode.call.op = "registerVersion" /\ ~unicode.thrown
    /\ unicode.instances["A"].disposed
    /\ ~unicode.instances["B"].disposed
    /\ unicode.funcs = 3
    /\ unicode.cleared = {}
    /\ Len(unicode.instances["B"].registerCallbacks) = 1
    /\ unicode.invoked = <<unicode.instances["B"].registerCallbacks[1].func>>

\* The image renderer under the calls of the terminal, the addon and the
\* storage, and the fulfilment of its bitmap promises.
NextImage ==
    \/ Construct
    \/ Open
    \/ SetRenderer
    \/ DisposeRenderer
    \/ ShowPlaceholder
    \/ DrawPlaceholder
    \/ Resolve

SpecImage == InitOthers /\ [][NextImage]_vars

\* C37: at most one canvas of the renderer is attached to the screen
\* element, and none once the renderer is disposed.
C37_OneLayerAttached ==
    /\ Cardinality(image.children) <= 1
    /\ image.disposed => image.children = {}

\* C38: once the placeholder is switched off by showPlaceholder(false) or by
\* dispose, no placeholder bitmap is held, and a drawPlaceholder draws
\* nothing and does not throw.
C38_PlaceholderOffStaysOff ==
    image.off =>
        /\ ~image.placeholderBitmap
        /\ image.last.op = "drawPlaceholder" => (~image.last.drawn /\ ~image.last.thrown)

====
